---- MODULE Spec2Model ----
(***************************************************************************)
(* Model of the Ant Review extension: the semantic service's result cache  *)
(* (ClaudeService), the orchestrator that drives the analyzers and the     *)
(* webview (CodeReviewProvider), and the aggregator (combineResults).      *)
(*                                                                         *)
(* Scores are kept in tenths (score 10 is 100, 9.5 is 95) so that the      *)
(* rounding of combineResults is integer arithmetic.                       *)
(***************************************************************************)
EXTENDS Integers, Sequences, FiniteSets, TLC

(***************************************************************************)
(* Bounds                                                                  *)
(***************************************************************************)
MaxCalls == 2
MaxResults == 3
MaxRequests == 2
MaxLoads == 1

\* Values standing for JavaScript's null / undefined
NoClient == "null"
NoContent == "undefined"
NoEntry == 0
NoObj == "none"
NoField == "absent"

Paths == {"a.ts", "b.ts"}
Contents == {"x"}
ApiKeys == {"k1"}

\* FileChange (types/index.ts): only path and content matter to the cache
FileChanges == [path : Paths, content : Contents \cup {NoContent}]

CallIds == 1..MaxCalls

(***************************************************************************)
(* State                                                                   *)
(***************************************************************************)
VARIABLES
  anthropic,     \* ClaudeService.anthropic: NoClient or the API key of the client
  resultCache,   \* ClaudeService.resultCache: cache key -> id of the cached result object
  heap,          \* result objects by identity: the object returned by call c is heap[c]
  calls,         \* analyzeFullFile activations: id -> [fc, st, hit]
  invoked,       \* per cache key, number of anthropic.messages.create calls made
  lastOp,        \* name of the last operation logged
  cmbIn,         \* combineResults: the results array it is called with
  cmbOut,        \* combineResults: the combined result, once it has returned
  fnIn,          \* the argument a stateless method is called with
  fnOut,         \* what that call returned, once lastOp names the method
  reqs,          \* webview analysis requests: id -> [kind, files, idx, pc]
  log,           \* per handler activation, its sendToWebview calls in order
  issuesMap,     \* UniversalAntReviewProvider.issuesMap, in insertion order
  loading        \* number of loadInitialData runs in flight

svcVars == <<resultCache, heap, calls, invoked>>
cmbVars == <<cmbIn, cmbOut>>
fnVars == <<fnIn, fnOut>>
orchVars == <<reqs, log, issuesMap, loading>>
vars == <<anthropic, resultCache, heap, calls, invoked, lastOp, cmbIn, cmbOut,
          fnIn, fnOut, reqs, log, issuesMap, loading>>

(***************************************************************************)
(* ClaudeService                                                           *)
(***************************************************************************)
\* crypto.createHash("md5").update(content || "").digest("hex"): the digest is
\* kept as the text it was computed from, an absent content hashing as "".
Md5(content) == <<"md5", IF content = NoContent THEN "" ELSE content>>

GetCacheKey(fc) == <<fc.path, Md5(fc.content)>>

Keys == {GetCacheKey(fc) : fc \in FileChanges}

EmptyCache == [k \in Keys |-> NoEntry]

\* A lookup that never finds the entry
CacheLookupAlwaysMiss(cache, k) == NoEntry

\* this.resultCache.get(cacheKey)
CacheLookup(cache, k) == cache[k]

\* Issues and suggestions a completion response can carry.  The payload's own
\* "source" value is kept to show that the parser overwrites it.
PayloadIssue1 == [type |-> "error", line |-> 3, message |-> "m1", source |-> "ant"]
PayloadIssue2 == [type |-> "warning", line |-> 1, message |-> "m2", source |-> NoField]
PayloadSuggestion1 == [line |-> 3, message |-> "s1", source |-> NoField]

\* A JSON value with its JavaScript type, as typeof / Array.isArray see it
JArray(v) == [t |-> "array", v |-> v]
JNumber(v) == [t |-> "number", v |-> v]
JString(v) == [t |-> "string", v |-> v]
JUndefined == [t |-> "undefined"]

\* Parsed JSON objects of the completion texts the model draws from
Payloads ==
  { [issues |-> JArray(<<PayloadIssue1, PayloadIssue2>>),
     suggestions |-> JArray(<<PayloadSuggestion1>>),
     score |-> JNumber(80), summary |-> JString("two findings")],
    [issues |-> JArray(<<>>), suggestions |-> JUndefined,
     score |-> JUndefined, summary |-> JUndefined] }

\* What anthropic.messages.create can do: return a text block, return a block
\* of another type, or reject.
Responses ==
  [kind : {"text"}, payload : Payloads] \cup {[kind |-> "nontext"], [kind |-> "throws"]}

\* A stamp that yields to the "source" the payload gives
StampUnlessGiven(seq) ==
  [i \in 1..Len(seq) |-> IF seq[i].source = NoField THEN [seq[i] EXCEPT !.source = "claude"]
                         ELSE seq[i]]

\* .map(x => ({...x, source: "claude"}))
Stamp(seq) == [i \in 1..Len(seq) |-> [seq[i] EXCEPT !.source = "claude"]]

\* parseAnalysisResponse, from the parsed object on.  A summary is kept as the
\* sequence of its " | "-separated parts, "" being the empty sequence.
ParseAnalysisResponse(parsed, filePath) ==
  [file |-> filePath,
   issues |-> IF parsed.issues.t = "array" THEN Stamp(parsed.issues.v) ELSE <<>>,
   suggestions |-> IF parsed.suggestions.t = "array" THEN Stamp(parsed.suggestions.v) ELSE <<>>,
   score |-> IF parsed.score.t = "number" THEN parsed.score.v ELSE 0,
   summary |-> IF parsed.summary.t = "string"
                 THEN (IF parsed.summary.v = "" THEN <<>> ELSE <<parsed.summary.v>>)
                 ELSE <<"No summary provided">>]

\* The slot of a result object that does not exist yet
NoResult == [file |-> NoObj, issues |-> <<>>, suggestions |-> <<>>, score |-> 0, summary |-> <<>>]

NoFile == [path |-> NoObj, content |-> NoContent]

IdleCall == [fc |-> NoFile, st |-> "idle", hit |-> FALSE, mutated |-> FALSE]

\* The service's mutable state as one value, so that a handler that makes
\* several service calls in a row can be written as their composition
Svc == [cache |-> resultCache, heap |-> heap, calls |-> calls, invoked |-> invoked]

SetSvc(S) ==
  /\ resultCache' = S.cache
  /\ heap' = S.heap
  /\ calls' = S.calls
  /\ invoked' = S.invoked

NewCall(fc, st, hit) == [fc |-> fc, st |-> st, hit |-> hit, mutated |-> FALSE]

\* A start that goes to the completion boundary without looking at the client
AnalyzeFullFileStartUnguarded(S, c, fc) ==
  LET key == GetCacheKey(fc)
      cached == CacheLookup(S.cache, key)
  IN  IF cached # NoEntry
        THEN [S EXCEPT !.calls[c] = NewCall(fc, "returned", TRUE),
                       !.heap[c] = S.heap[cached]]
      ELSE [S EXCEPT !.calls[c] = NewCall(fc, "awaiting", FALSE),
                     !.invoked[key] = @ + 1]

\* analyzeFullFile up to its first await: cache check (a hit returns a copy),
\* client check (throws), request sent to the completion boundary
AnalyzeFullFileStart(S, c, fc) ==
  LET key == GetCacheKey(fc)
      cached == CacheLookup(S.cache, key)
  IN  IF cached # NoEntry
        THEN [S EXCEPT !.calls[c] = NewCall(fc, "returned", TRUE),
                       !.heap[c] = S.heap[cached]]
      ELSE IF anthropic = NoClient
        THEN [S EXCEPT !.calls[c] = NewCall(fc, "thrown", FALSE)]
      ELSE [S EXCEPT !.calls[c] = NewCall(fc, "awaiting", FALSE),
                     !.invoked[key] = @ + 1]

\* A resumption that stores the empty result of a failed completion
AnalyzeFullFileResumeCachingFailure(S, c, resp) ==
  LET fc == S.calls[c].fc
      key == GetCacheKey(fc)
  IN  IF resp.kind = "text"
        THEN [S EXCEPT !.heap[c] = ParseAnalysisResponse(resp.payload, fc.path),
                       !.cache[key] = c,
                       !.calls[c].st = "returned"]
        ELSE [S EXCEPT !.cache[key] = c,
                       !.calls[c].st = "thrown"]

\* A resumption that answers a failed completion with a second request
AnalyzeFullFileResumeRetrying(S, c, resp) ==
  LET fc == S.calls[c].fc
      key == GetCacheKey(fc)
  IN  IF resp.kind = "text"
        THEN [S EXCEPT !.heap[c] = ParseAnalysisResponse(resp.payload, fc.path),
                       !.cache[key] = c,
                       !.calls[c].st = "returned"]
        ELSE [S EXCEPT !.invoked[key] = @ + 1]

\* analyzeFullFile after the await: parse, store and return the stored
\* object; a non-text block or a rejection is rethrown
AnalyzeFullFileResume(S, c, resp) ==
  LET fc == S.calls[c].fc
      key == GetCacheKey(fc)
  IN  IF resp.kind = "text"
        THEN [S EXCEPT !.heap[c] = ParseAnalysisResponse(resp.payload, fc.path),
                       !.cache[key] = c,
                       !.calls[c].st = "returned"]
        ELSE [S EXCEPT !.calls[c].st = "thrown"]

\* A clear that leaves the entries in place
ClearedCacheKeepsEntries(cache) == cache

\* this.resultCache.clear()
ClearedCache(cache) == [k \in DOMAIN cache |-> NoEntry]

\* A clear that also fails the analyses in flight
ClearCacheCancellingCalls(S) ==
  [S EXCEPT !.cache = ClearedCache(S.cache),
            !.calls = [c \in DOMAIN S.calls |->
                         IF S.calls[c].st = "awaiting"
                           THEN [S.calls[c] EXCEPT !.st = "thrown"]
                           ELSE S.calls[c]]]

\* clearCache()
clearCache(S) == [S EXCEPT !.cache = ClearedCache(S.cache)]

FreeCalls == {c \in DOMAIN calls : calls[c].st = "idle"}

\* No stateless method has been called
FnIdle == fnIn = <<>> /\ fnOut = <<>>

\* The orchestrator before any webview message or command
RequestIds == 1..MaxRequests

IdleRequest == [kind |-> NoObj, files |-> <<>>, idx |-> 0, pc |-> "idle"]

OrchIdle ==
  /\ reqs = [r \in RequestIds |-> IdleRequest]
  /\ log = [r \in RequestIds |-> <<>>]
  /\ issuesMap = <<>>
  /\ loading = 0

(***************************************************************************)
(* The service driven directly by its callers                              *)
(***************************************************************************)
InitCache ==
  /\ anthropic = NoClient
  /\ resultCache = EmptyCache
  /\ heap = [c \in CallIds |-> NoResult]
  /\ calls = [c \in CallIds |-> IdleCall]
  /\ invoked = [k \in Keys |-> 0]
  /\ lastOp = "constructor"
  /\ cmbIn = <<>>
  /\ cmbOut = NoResult
  /\ FnIdle
  /\ OrchIdle

\* initialize(apiKey)
Initialize(k) ==
  /\ anthropic' = k
  /\ lastOp' = "initialize"
  /\ UNCHANGED <<resultCache, heap, calls, invoked>>

CallAnalyzeFullFile(fc) ==
  /\ FreeCalls # {}
  /\ LET c == CHOOSE x \in FreeCalls : \A y \in FreeCalls : x <= y
     IN  SetSvc(AnalyzeFullFileStart(Svc, c, fc))
  /\ lastOp' = "analyzeFullFile"
  /\ UNCHANGED anthropic

BoundaryResponds(c, resp) ==
  /\ calls[c].st = "awaiting"
  /\ SetSvc(AnalyzeFullFileResume(Svc, c, resp))
  /\ lastOp' = IF resp.kind = "text" THEN "response" ELSE "failure"
  /\ UNCHANGED anthropic

ClearCache ==
  /\ SetSvc(clearCache(Svc))
  /\ lastOp' = "clearCache"
  /\ UNCHANGED anthropic

\* What a caller can do to a sequence it was handed
Mutations == {"push", "pop", "reverse"}

Reverse(s) == [i \in 1..Len(s) |-> s[Len(s) + 1 - i]]

CallerIssue == [type |-> "info", line |-> 9, message |-> "caller", source |-> "ant"]

Mutate(s, m) ==
  CASE m = "push" -> Append(s, CallerIssue)
    [] m = "pop" -> IF s = <<>> THEN s ELSE SubSeq(s, 1, Len(s) - 1)
    [] OTHER -> Reverse(s)

\* The caller of call c changes the issues array of the result it received
MutateReturned(c, m) ==
  /\ calls[c].st = "returned"
  /\ ~calls[c].mutated
  /\ heap' = [heap EXCEPT ![c].issues = Mutate(@, m)]
  /\ calls' = [calls EXCEPT ![c].mutated = TRUE]
  /\ lastOp' = "mutate"
  /\ UNCHANGED <<anthropic, resultCache, invoked>>

NextCache ==
  \/ (\E k \in ApiKeys : Initialize(k)) /\ UNCHANGED <<cmbVars, fnVars, orchVars>>
  \/ (\E fc \in FileChanges : CallAnalyzeFullFile(fc)) /\ UNCHANGED <<cmbVars, fnVars, orchVars>>
  \/ (\E c \in CallIds, resp \in Responses : BoundaryResponds(c, resp)) /\ UNCHANGED <<cmbVars, fnVars, orchVars>>
  \/ ClearCache /\ UNCHANGED <<cmbVars, fnVars, orchVars>>
  \/ (\E c \in CallIds, m \in Mutations : MutateReturned(c, m)) /\ UNCHANGED <<cmbVars, fnVars, orchVars>>

SpecCache == InitCache /\ [][NextCache]_vars

(***************************************************************************)
(* Properties of the result cache (checked under SpecCache)                *)
(***************************************************************************)
KeyOf(c) == GetCacheKey(calls[c].fc)

Started(c) == calls[c].st = "idle" /\ calls'[c].st # "idle"

\* The value each cached key currently yields
CachedValues ==
  [k \in {x \in Keys : resultCache[x] # NoEntry} |-> heap[resultCache[k]]]

\* C1: while a result is cached for a key, no step invokes the completion
\* boundary for that key, and a call that starts on a cached key returns at
\* once with the cached value.
C1_CachedKeyNotRecomputed ==
  [][ /\ \A k \in Keys : resultCache[k] # NoEntry => invoked'[k] = invoked[k]
      /\ \A c \in DOMAIN calls :
           (Started(c) /\ resultCache[GetCacheKey(calls'[c].fc)] # NoEntry)
             => /\ calls'[c].st = "returned"
                /\ heap'[c] = heap[resultCache[GetCacheKey(calls'[c].fc)]] ]_vars

\* A second call for a key was answered from the cache after one invocation
C1_Witness ==
  \E c \in DOMAIN calls :
    calls[c].st = "returned" /\ calls[c].hit /\ invoked[KeyOf(c)] = 1

\* C2 (as claimed): at most one computation is in flight for a key, the
\* second concurrent caller waits instead of invoking the boundary again.
C2_Singleflight ==
  \A k \in Keys :
    Cardinality({c \in DOMAIN calls : calls[c].st = "awaiting" /\ KeyOf(c) = k}) <= 1

\* C3 (as claimed): a caller changing a sequence it received never changes
\* what the cache holds.
C3_DefensiveCopy ==
  [][lastOp' = "mutate" => CachedValues' = CachedValues]_vars

PushAllDistinct(acc, items) ==
  acc \o SelectSeq(items, LAMBDA x : \A i \in 1..Len(acc) : acc[i] # x)

\* combined.issues.push(...result.issues)
PushAll(acc, items) == acc \o items

\* A rounding that truncates
RoundTruncating(sum, n) == sum \div n

\* Math.round((sum / n) * 10) / 10 on scores kept in tenths: Math.round(x) is
\* floor(x + 0.5)
RoundToTenth(sum, n) == (2 * sum + n) \div (2 * n)

RECURSIVE SumScores(_, _)
SumScores(results, i) ==
  IF i > Len(results) THEN 0 ELSE results[i].score + SumScores(results, i + 1)

\* results.forEach: push every issue and suggestion in input order
RECURSIVE CombineFold(_, _, _)
CombineFold(results, i, acc) ==
  IF i > Len(results) THEN acc
  ELSE CombineFold(results, i + 1,
         [acc EXCEPT !.issues = PushAll(@, results[i].issues),
                     !.suggestions = PushAll(@, results[i].suggestions)])

\* results.map(r => r.summary).filter(s => s).join(" | "); a summary is kept
\* as the sequence of its " | "-separated parts, "" being the empty sequence
RECURSIVE JoinSummaries(_, _)
JoinSummaries(results, i) ==
  IF i > Len(results) THEN <<>>
  ELSE results[i].summary \o JoinSummaries(results, i + 1)

combineResults(results) ==
  LET merged == CombineFold(results, 1,
                  [file |-> results[1].file, issues |-> <<>>, suggestions |-> <<>>,
                   score |-> 0, summary |-> <<>>])
  IN  [merged EXCEPT !.score = RoundToTenth(SumScores(results, 1), Len(results)),
                     !.summary = JoinSummaries(results, 1)]

\* Findings and per-source results the aggregator is exercised with
AntIssue == [type |-> "warning", line |-> 1, message |-> "TODO/FIXME comment found", source |-> "ant"]
LinterIssue == [type |-> "error", line |-> 2, message |-> "lint", source |-> "linter"]
AntSuggestion == [line |-> 1, message |-> "Address this TODO/FIXME", source |-> "ant"]

SampleFindings ==
  { [issues |-> <<>>, suggestions |-> <<>>, summary |-> <<>>],
    [issues |-> <<AntIssue>>, suggestions |-> <<AntSuggestion>>, summary |-> <<"one">>],
    [issues |-> <<LinterIssue, AntIssue>>, suggestions |-> <<>>, summary |-> <<"two">>] }

SampleScores == {0, 40, 60, 80, 95, 100}

SampleResults ==
  { [file |-> "a.ts", issues |-> f.issues, suggestions |-> f.suggestions,
     score |-> sc, summary |-> f.summary] : f \in SampleFindings, sc \in SampleScores }

SeqsUpTo(S, n) == UNION {[1..k -> S] : k \in 1..n}

InitCombine ==
  /\ anthropic = NoClient
  /\ resultCache = EmptyCache
  /\ heap = [c \in CallIds |-> NoResult]
  /\ calls = [c \in CallIds |-> IdleCall]
  /\ invoked = [k \in Keys |-> 0]
  /\ lastOp = "constructor"
  /\ cmbIn \in SeqsUpTo(SampleResults, MaxResults)
  /\ cmbOut = NoResult
  /\ FnIdle
  /\ OrchIdle

CallCombineResults ==
  /\ cmbOut = NoResult
  /\ cmbOut' = combineResults(cmbIn)
  /\ lastOp' = "combineResults"
  /\ UNCHANGED <<anthropic, resultCache, heap, calls, invoked, cmbIn, fnVars, orchVars>>

NextCombine == CallCombineResults

SpecCombine == InitCombine /\ [][NextCombine]_vars

Combined == lastOp = "combineResults"

RECURSIVE IssueCount(_, _)
IssueCount(results, j) ==
  IF j = 0 THEN 0 ELSE Len(results[j].issues) + IssueCount(results, j - 1)

RECURSIVE SuggestionCount(_, _)
SuggestionCount(results, j) ==
  IF j = 0 THEN 0 ELSE Len(results[j].suggestions) + SuggestionCount(results, j - 1)

\* C9: the merged issues are the inputs' issues, every one of them, in input
\* order: issue p of input j sits at position (issues of inputs before j) + p
\* and the length is the sum of the input lengths; likewise for suggestions.
C9_CombineKeepsEveryFinding ==
  Combined =>
    /\ Len(cmbOut.issues) = IssueCount(cmbIn, Len(cmbIn))
    /\ Len(cmbOut.suggestions) = SuggestionCount(cmbIn, Len(cmbIn))
    /\ \A j \in 1..Len(cmbIn) :
         /\ \A q \in 1..Len(cmbIn[j].issues) :
              cmbOut.issues[IssueCount(cmbIn, j - 1) + q] = cmbIn[j].issues[q]
         /\ \A q \in 1..Len(cmbIn[j].suggestions) :
              cmbOut.suggestions[SuggestionCount(cmbIn, j - 1) + q] = cmbIn[j].suggestions[q]

\* Three sources, two of them reporting the same finding, were merged
C9_Witness ==
  /\ Combined
  /\ Len(cmbIn) = 3
  /\ \E j, k \in 1..3 : j # k /\ AntIssue \in {cmbIn[j].issues[q] : q \in 1..Len(cmbIn[j].issues)}
                              /\ AntIssue \in {cmbIn[k].issues[q] : q \in 1..Len(cmbIn[k].issues)}
  /\ Len(cmbOut.issues) >= 3

ScoresOf(results) == [j \in 1..Len(results) |-> results[j].score]

\* C10: the composite score is the tenth nearest to the mean of the input
\* scores, whatever the issues are; [8,6,4] gives 6.0, [10] gives 10.0 and
\* [10,0] gives 5.0.
C10_CompositeScoreIsRoundedMean ==
  Combined =>
    LET n == Len(cmbIn)
        sum == SumScores(cmbIn, 1)
        d == 2 * n * cmbOut.score - 2 * sum
    IN  /\ -n < d /\ d <= n
        /\ ScoresOf(cmbIn) = <<80, 60, 40>> => cmbOut.score = 60
        /\ ScoresOf(cmbIn) = <<100>> => cmbOut.score = 100
        /\ ScoresOf(cmbIn) = <<100, 0>> => cmbOut.score = 50

\* Scores 10, 9.5 and 9.5 with findings present were merged to 9.7
C10_Witness ==
  /\ Combined
  /\ ScoresOf(cmbIn) = <<100, 95, 95>>
  /\ cmbOut.issues # <<>>
  /\ cmbOut.score = 97

(***************************************************************************)
(* The analyzers the orchestrator runs beside the semantic service         *)
(***************************************************************************)
\* ANTAnalyzer.analyzeFile on the contents of the model: an absent or empty
\* content gives createEmptyResult; the one-line text "x" matches no rule
AntAnalyzeFile(fc) ==
  IF fc.content = NoContent \/ fc.content = ""
    THEN [file |-> fc.path, issues |-> <<>>, suggestions |-> <<>>, score |-> 100,
          summary |-> <<"No content to analyze">>]
    ELSE [file |-> fc.path, issues |-> <<>>, suggestions |-> <<>>, score |-> 100,
          summary |-> <<"Custom Analysis: Code quality is good with no major issues detected.">>]

\* What vscode.languages.getDiagnostics gives LinterAnalyzer.analyzeFile: no
\* diagnostic, one Error diagnostic, or an exception (caught by the analyzer);
\* the orchestrator is exercised with the first and the last
LinterOutcomes == {"clean", "throws"}

\* LinterAnalyzer.analyzeFile
LinterAnalyzeFile(fc, outcome) ==
  CASE outcome = "clean" ->
         [file |-> fc.path, issues |-> <<>>, suggestions |-> <<>>, score |-> 100,
          summary |-> <<"No linting issues found - code follows style guidelines well.">>]
    [] outcome = "oneError" ->
         [file |-> fc.path, issues |-> <<LinterIssue>>, suggestions |-> <<>>, score |-> 80,
          summary |-> <<"Found 1 errors, 0 warnings, and 0 info items. Generated 0 suggestions for improvement.">>]
    [] OTHER ->
         [file |-> fc.path,
          issues |-> <<[type |-> "error", line |-> 1,
                        message |-> "Linter analysis failed", source |-> "linter"]>>,
          suggestions |-> <<>>, score |-> 0, summary |-> <<"Linting failed">>]

(***************************************************************************)
(* UniversalAntReviewProvider: the issue index                             *)
(***************************************************************************)
\* Map.set: an existing key keeps its place, a new key goes last
MapSet(m, key, value) ==
  IF \E i \in 1..Len(m) : m[i].path = key
    THEN [i \in 1..Len(m) |-> IF m[i].path = key THEN [path |-> key, issues |-> value] ELSE m[i]]
    ELSE Append(m, [path |-> key, issues |-> value])

\* setIssues(filePath, issues)
setIssues(m, filePath, issues) == MapSet(m, filePath, issues)

(***************************************************************************)
(* CodeReviewProvider: the orchestrator                                    *)
(***************************************************************************)
\* vscode.workspace.workspaceFolders[0].uri.fsPath of the opened workspace
WorkspaceRoot == "/ws"

\* A full path that is the relative path again
FullPathAsRelative(path) == path

\* `${workspaceRoot}/${fileChange.path}`
FullPath(path) == WorkspaceRoot \o "/" \o path

\* A webview that sees each message ahead of the earlier ones
NotifyAhead(l, r, command, file) ==
  [l EXCEPT ![r] = <<[command |-> command, file |-> file]>> \o @]

\* sendToWebview(command, data) by the handler activation of request r
Notify(l, r, command, file) ==
  [l EXCEPT ![r] = Append(@, [command |-> command, file |-> file])]

\* The fileChanges of an analyzeFiles message: the webview's currentChanges,
\* one entry per changed path (GitService.getAllChanges keys them by path)
DistinctPaths(fs) == \A i, j \in 1..Len(fs) : i # j => fs[i].path # fs[j].path

MessageFileChanges == [path : Paths, content : Contents]

Batches ==
  {fs \in UNION {[1..n -> MessageFileChanges] : n \in 0..Cardinality(Paths)} : DistinctPaths(fs)}

\* What getFreshChanges resolves to: per path, no change or the change with
\* the content git reads now
NotChanged == "notChanged"
FreshChanges == [Paths -> Contents \cup {NotChanged}]

\* freshChanges.find(fc => fc.path === original.path) || original
Resolve(fresh, original) ==
  IF fresh[original.path] = NotChanged THEN original
  ELSE [path |-> original.path, content |-> fresh[original.path]]

MaxBatch == Cardinality(Paths)

\* The analyzeFullFile activation of file i of request r
CallOf(r, i) == (r - 1) * MaxBatch + i

OrchCallIds == 1..(MaxRequests * MaxBatch)

NextRequest(r) == reqs[r].pc = "idle" /\ \A q \in RequestIds : q < r => reqs[q].pc # "idle"

Init ==
  /\ anthropic = NoClient
  /\ resultCache = EmptyCache
  /\ heap = [c \in OrchCallIds |-> NoResult]
  /\ calls = [c \in OrchCallIds |-> IdleCall]
  /\ invoked = [k \in Keys |-> 0]
  /\ lastOp = "constructor"
  /\ cmbIn = <<>>
  /\ cmbOut = NoResult
  /\ FnIdle
  /\ OrchIdle

\* The activation of a call whose promise the orchestrator has consumed
SettledCall(st) == [fc |-> NoFile, st |-> "settled", hit |-> FALSE, mutated |-> FALSE]

\* Result objects that neither the cache nor a pending promise refers to are
\* unreachable; their slots are emptied (garbage collection)
Collect(S) ==
  [S EXCEPT !.heap = [c \in DOMAIN S.heap |->
     IF (\E k \in DOMAIN S.cache : S.cache[k] = c) \/ S.calls[c].st = "returned"
       THEN S.heap[c] ELSE NoResult]]

\* handleSetApiKey -> ClaudeService.initialize
HandleSetApiKey(k) ==
  /\ anthropic' = k
  /\ UNCHANGED <<resultCache, heap, calls, invoked, lastOp, cmbVars, fnVars, orchVars>>

\* A handler that starts the analysis without asking isInitialized()
HandleAnalyzeFilesUnguarded(r, fileChanges) ==
  /\ NextRequest(r)
  /\ reqs' = [reqs EXCEPT ![r] = [kind |-> "analyzeFiles", files |-> fileChanges,
                                  idx |-> 0, pc |-> "git"]]
  /\ log' = Notify(log, r, "analysisStarted", NoObj)
  /\ resultCache' = clearCache(Svc).cache
  /\ heap' = Collect(clearCache(Svc)).heap
  /\ UNCHANGED <<anthropic, calls, invoked, lastOp, cmbVars, fnVars, issuesMap, loading>>

\* handleAnalyzeFiles up to the await of getFreshChanges
HandleAnalyzeFiles(r, fileChanges) ==
  /\ NextRequest(r)
  /\ IF anthropic = NoClient
       THEN /\ reqs' = [reqs EXCEPT ![r] = [kind |-> "analyzeFiles", files |-> fileChanges,
                                           idx |-> 0, pc |-> "done"]]
            /\ UNCHANGED <<log, resultCache>>
       ELSE /\ reqs' = [reqs EXCEPT ![r] = [kind |-> "analyzeFiles", files |-> fileChanges,
                                           idx |-> 0, pc |-> "git"]]
            /\ log' = Notify(log, r, "analysisStarted", NoObj)
            /\ resultCache' = clearCache(Svc).cache
  /\ heap' = IF anthropic = NoClient THEN heap ELSE Collect(clearCache(Svc)).heap
  /\ UNCHANGED <<anthropic, calls, invoked, lastOp, cmbVars, fnVars, issuesMap, loading>>

\* handleAnalyzeFullFile up to the await of getFreshChanges
HandleAnalyzeFullFile(r, filePath) ==
  /\ NextRequest(r)
  /\ reqs' = [reqs EXCEPT ![r] =
       [kind |-> "analyzeFullFile", files |-> <<[path |-> filePath, content |-> NoContent]>>,
        idx |-> 0, pc |-> IF anthropic = NoClient THEN "done" ELSE "gitFull"]]
  /\ UNCHANGED <<anthropic, resultCache, heap, calls, invoked, lastOp, cmbVars, fnVars,
                 log, issuesMap, loading>>

\* A loop that ends without its analysisCompleted
StartFileSilentAtEnd(S, l, r, files, i) ==
  IF i > Len(files)
    THEN [svc |-> S, log |-> l,
          req |-> [kind |-> "analyzeFiles", files |-> files, idx |-> i - 1, pc |-> "done"]]
    ELSE [svc |-> AnalyzeFullFileStart(S, CallOf(r, i), files[i]), log |-> l,
          req |-> [kind |-> "analyzeFiles", files |-> files, idx |-> i, pc |-> "join"]]

\* The loop body of handleAnalyzeFiles from its top to the await of
\* Promise.all for file i; past the last file, analysisCompleted
StartFile(S, l, r, files, i) ==
  IF i > Len(files)
    THEN [svc |-> S, log |-> Notify(l, r, "analysisCompleted", NoObj),
          req |-> [kind |-> "analyzeFiles", files |-> files, idx |-> i - 1, pc |-> "done"]]
    ELSE [svc |-> AnalyzeFullFileStart(S, CallOf(r, i), files[i]), log |-> l,
          req |-> [kind |-> "analyzeFiles", files |-> files, idx |-> i, pc |-> "join"]]

\* getFreshChanges settles for an analyzeFiles request: on rejection the catch
\* block reports analysisError, otherwise the loop starts
FreshChangesForFiles(r, fresh) ==
  /\ reqs[r].pc = "git"
  /\ IF ~fresh.ok
       THEN /\ log' = Notify(log, r, "analysisError", NoObj)
            /\ reqs' = [reqs EXCEPT ![r].pc = "done"]
            /\ UNCHANGED <<resultCache, heap, calls, invoked>>
       ELSE LET files == [i \in 1..Len(reqs[r].files) |-> Resolve(fresh.changes, reqs[r].files[i])]
                next == StartFile(Svc, log, r, files, 1)
            IN  /\ SetSvc(Collect(next.svc))
                /\ log' = next.log
                /\ reqs' = [reqs EXCEPT ![r] = next.req]
  /\ UNCHANGED <<anthropic, lastOp, cmbVars, fnVars, issuesMap, loading>>

\* handleAnalyzeFullFile from the file being known to the await of Promise.all
StartFullFile(r, fileChange) ==
  /\ log' = Notify(log, r, "analysisStarted", NoObj)
  /\ SetSvc(Collect(AnalyzeFullFileStart(clearCache(Svc), CallOf(r, 1), fileChange)))
  /\ reqs' = [reqs EXCEPT ![r] = [kind |-> "analyzeFullFile", files |-> <<fileChange>>,
                                  idx |-> 1, pc |-> "join"]]

\* getFreshChanges settles for an analyzeFullFile request
FreshChangesForFullFile(r, fresh) ==
  /\ reqs[r].pc = "gitFull"
  /\ IF ~fresh.ok
       THEN /\ log' = Notify(log, r, "analysisError", NoObj)
            /\ reqs' = [reqs EXCEPT ![r].pc = "done"]
            /\ UNCHANGED <<resultCache, heap, calls, invoked>>
       ELSE IF fresh.changes[reqs[r].files[1].path] = NotChanged
         THEN /\ reqs' = [reqs EXCEPT ![r].pc = "gitFile"]
              /\ UNCHANGED <<log, resultCache, heap, calls, invoked>>
       ELSE StartFullFile(r, Resolve(fresh.changes, reqs[r].files[1]))
  /\ UNCHANGED <<anthropic, lastOp, cmbVars, fnVars, issuesMap, loading>>

\* getFileAsChange settles for an analyzeFullFile request
FileAsChangeReturns(r, content) ==
  /\ reqs[r].pc = "gitFile"
  /\ IF content = "throws"
       THEN /\ log' = Notify(log, r, "analysisError", NoObj)
            /\ reqs' = [reqs EXCEPT ![r].pc = "done"]
            /\ UNCHANGED <<resultCache, heap, calls, invoked>>
       ELSE StartFullFile(r, [path |-> reqs[r].files[1].path, content |-> content])
  /\ UNCHANGED <<anthropic, lastOp, cmbVars, fnVars, issuesMap, loading>>

\* Promise.all([claude, ant, linter]) settles for the current file of request
\* r: the semantic call finishes (resp is what the completion boundary did,
\* if the call went to it); a rejection goes to the handler's catch block,
\* otherwise the results are combined, published and notified, and the
\* handler goes on to the next file or completes
FileAnalysisSettles(r, resp, lint) ==
  LET c == CallOf(r, reqs[r].idx)
      fc == reqs[r].files[reqs[r].idx]
      S0 == IF calls[c].st = "awaiting" THEN AnalyzeFullFileResume(Svc, c, resp) ELSE Svc
      S1 == [S0 EXCEPT !.calls[c] = SettledCall(S0.calls[c].st)]
      combined == combineResults(<<S0.heap[c], AntAnalyzeFile(fc), LinterAnalyzeFile(fc, lint)>>)
      published == setIssues(setIssues(issuesMap, FullPath(fc.path), combined.issues),
                             fc.path, combined.issues)
      notified == Notify(log, r, "fileAnalyzed", fc.path)
      next == IF reqs[r].kind = "analyzeFiles"
                THEN StartFile(S1, notified, r, reqs[r].files, reqs[r].idx + 1)
                ELSE [svc |-> S1, log |-> Notify(notified, r, "analysisCompleted", NoObj),
                      req |-> [reqs[r] EXCEPT !.pc = "done"]]
  IN  /\ reqs[r].pc = "join"
      /\ IF S0.calls[c].st = "thrown"
           THEN /\ SetSvc(Collect(S1))
                /\ log' = Notify(log, r, "analysisError", NoObj)
                /\ reqs' = [reqs EXCEPT ![r].pc = "done"]
                /\ UNCHANGED issuesMap
           ELSE /\ SetSvc(Collect(next.svc))
                /\ log' = next.log
                /\ reqs' = [reqs EXCEPT ![r] = next.req]
                /\ issuesMap' = published
      /\ UNCHANGED <<anthropic, lastOp, cmbVars, fnVars, loading>>

\* A user-initiated refresh starts a new period for the invocation counts
NoInvocations == [k \in Keys |-> 0]

\* The code-review.refreshChanges command -> CodeReviewProvider.refreshChanges;
\* hasPanel tells whether this.panel is set, in which case loadInitialData starts
RefreshChangesCommand(hasPanel) ==
  /\ hasPanel => loading < MaxLoads
  /\ resultCache' = clearCache(Svc).cache
  /\ heap' = Collect(clearCache(Svc)).heap
  /\ loading' = IF hasPanel THEN loading + 1 ELSE loading
  /\ invoked' = NoInvocations
  /\ UNCHANGED <<anthropic, calls, lastOp, cmbVars, fnVars, reqs, log, issuesMap>>

\* The webview's 'refreshChanges' message (its Refresh button): loadInitialData
\* starts
WebviewRefreshChanges ==
  /\ loading < MaxLoads
  /\ loading' = loading + 1
  /\ invoked' = NoInvocations
  /\ UNCHANGED <<anthropic, resultCache, heap, calls, lastOp, cmbVars, fnVars, reqs, log, issuesMap>>

\* loadInitialData runs to its end
LoadInitialDataReturns ==
  /\ loading > 0
  /\ loading' = loading - 1
  /\ UNCHANGED <<anthropic, svcVars, lastOp, cmbVars, fnVars, reqs, log, issuesMap>>

\* The completion outcomes the orchestrator is exercised with: one text, a
\* block of another type, a rejection
FullPayload == CHOOSE p \in Payloads : p.score.t = "number"
OrchResponses == {resp \in Responses : resp.kind = "text" => resp.payload = FullPayload}

\* getFreshChanges resolves with the changes or rejects
GitOutcomes == [ok : {TRUE}, changes : FreshChanges] \cup {[ok |-> FALSE]}

Next ==
  \/ \E k \in ApiKeys : HandleSetApiKey(k)
  \/ \E r \in RequestIds, fs \in Batches : HandleAnalyzeFiles(r, fs)
  \/ \E r \in RequestIds, p \in Paths : HandleAnalyzeFullFile(r, p)
  \/ \E r \in RequestIds, fresh \in GitOutcomes : FreshChangesForFiles(r, fresh)
  \/ \E r \in RequestIds, fresh \in GitOutcomes : FreshChangesForFullFile(r, fresh)
  \/ \E r \in RequestIds, content \in Contents \cup {"throws"} : FileAsChangeReturns(r, content)
  \/ \E r \in RequestIds, resp \in OrchResponses, lint \in LinterOutcomes : FileAnalysisSettles(r, resp, lint)
  \/ \E hasPanel \in BOOLEAN : RefreshChangesCommand(hasPanel)
  \/ WebviewRefreshChanges
  \/ LoadInitialDataReturns

Spec == Init /\ [][Next]_vars

(***************************************************************************)
(* Properties of the orchestrator (checked under Spec)                     *)
(***************************************************************************)
\* C4: between two user-initiated refreshes, whatever analyzeFiles and
\* analyzeFullFile requests are issued, the completion boundary is invoked at
\* most once per (path, content) key
C4_AtMostOncePerRefreshPeriod == \A k \in Keys : invoked[k] <= 1

IsFileAnalyzed(m) == m.command = "fileAnalyzed"

FileAnalyzedOf(r) == SelectSeq(log[r], IsFileAnalyzed)

\* The loop of an analyzeFiles request has been entered and the handler is over
BatchOver(r) ==
  /\ reqs[r].kind = "analyzeFiles"
  /\ reqs[r].pc = "done"
  /\ reqs[r].idx >= 1

\* C5: a source that throws for one file aborts neither the combine nor the
\* batch: once the loop of an analyzeFiles request has started, the handler
\* ends with every file of the batch analyzed, published and notified
C5_FailureIsolation ==
  \A r \in RequestIds :
    BatchOver(r) =>
      /\ Len(FileAnalyzedOf(r)) = Len(reqs[r].files)
      /\ \A i \in 1..Len(reqs[r].files) :
            \E j \in 1..Len(issuesMap) : issuesMap[j].path = reqs[r].files[i].path

\* C7: every step that starts a reload of the changes on a user's refresh
\* (the command or the webview's Refresh button) leaves the cache empty
C7_RefreshClearsCache == [][loading' = loading + 1 => resultCache' = EmptyCache]_vars

CommandAt(r, i) == log[r][i].command

\* C8: in the messages of one analyzeFiles request, the k-th fileAnalyzed is
\* the one of file k, every fileAnalyzed comes after analysisStarted, and
\* analysisCompleted comes after every fileAnalyzed
C8_NotificationOrder ==
  \A r \in RequestIds :
    reqs[r].kind = "analyzeFiles" =>
      /\ Len(FileAnalyzedOf(r)) <= Len(reqs[r].files)
      /\ \A k \in 1..Len(FileAnalyzedOf(r)) :
            FileAnalyzedOf(r)[k].file = reqs[r].files[k].path
      /\ \A i \in 1..Len(log[r]) :
            CommandAt(r, i) = "fileAnalyzed" =>
              \E j \in 1..(i - 1) : CommandAt(r, j) = "analysisStarted"
      /\ \A i, j \in 1..Len(log[r]) :
            CommandAt(r, i) = "analysisCompleted" /\ CommandAt(r, j) = "fileAnalyzed"
              => j < i

\* A request over two files ran to analysisCompleted while another request
\* had sent messages of its own
C8_Witness ==
  \E r, q \in RequestIds :
    /\ r # q
    /\ log[q] # <<>>
    /\ reqs[r].kind = "analyzeFiles"
    /\ Len(reqs[r].files) = 2
    /\ Len(log[r]) = 4
    /\ CommandAt(r, 1) = "analysisStarted"
    /\ CommandAt(r, 2) = "fileAnalyzed"
    /\ CommandAt(r, 3) = "fileAnalyzed"
    /\ CommandAt(r, 4) = "analysisCompleted"

(***************************************************************************)
(* ClaudeService.parseAnalysisResponse on response texts                   *)
(***************************************************************************)
MaxPieces == 2

\* A response text is kept as the sequence of its whitespace-separated
\* pieces.  The pieces the model draws from: prose, Markdown fences (<fence>
\* stands for the three backquotes), JSON
\* scalars, an empty array, a {...} span that is not JSON, and JSON objects.
ProsePiece == "Here-is-my-review"
FenceJsonPiece == "<fence>json"
FencePiece == "<fence>"
NullPiece == "null"
NumberPiece == "5"
ArrayPiece == "[]"
BrokenPiece == "{\"issues\":[oops}"
FullObject == "{\"issues\":[i1,i2],\"suggestions\":[s1],\"score\":8,\"summary\":\"two findings\"}"
ResourcedObject == "{\"issues\":[j1,j2],\"suggestions\":[t1],\"score\":8,\"summary\":\"two findings\"}"
SparseObject == "{\"issues\":[]}"
HighScoreObject == "{\"issues\":[],\"score\":15}"
LowScoreObject == "{\"issues\":[],\"score\":-1}"
LineZeroObject == "{\"issues\":[i0],\"score\":9.5}"

ObjectPieces ==
  {FullObject, ResourcedObject, SparseObject, HighScoreObject, LowScoreObject, LineZeroObject}

Pieces ==
  {ProsePiece, FenceJsonPiece, FencePiece, NullPiece, NumberPiece, ArrayPiece, BrokenPiece}
    \cup ObjectPieces

\* j1, j2, t1: the findings of FullObject with other "source" values
PayloadIssue1Resourced == [PayloadIssue1 EXCEPT !.source = "linter"]
PayloadIssue2Resourced == [PayloadIssue2 EXCEPT !.source = "claude"]
PayloadSuggestion1Resourced == [PayloadSuggestion1 EXCEPT !.source = "ant"]
\* i0: an issue the response places at line 0
PayloadIssue0 == [type |-> "info", line |-> 0, message |-> "m0", source |-> NoField]

JObject(issues, suggestions, score, summary) ==
  [issues |-> issues, suggestions |-> suggestions, score |-> score, summary |-> summary]

\* An object, or array, with none of the four keys
NoKeys == JObject(JUndefined, JUndefined, JUndefined, JUndefined)

\* JSON.parse of the text made of the given pieces: [ok, type, obj], type being
\* what typeof says and obj the four keys read from the value
JsonValue(type, truthy, obj) == [ok |-> TRUE, type |-> type, truthy |-> truthy, obj |-> obj]
JsonSyntaxError == [ok |-> FALSE, type |-> "undefined", truthy |-> FALSE, obj |-> NoKeys]

JsonParse(text) ==
  IF Len(text) # 1 THEN JsonSyntaxError
  ELSE CASE text[1] = NullPiece -> JsonValue("object", FALSE, NoKeys)
         [] text[1] = NumberPiece -> JsonValue("number", TRUE, NoKeys)
         [] text[1] = ArrayPiece -> JsonValue("object", TRUE, NoKeys)
         [] text[1] = FullObject ->
              JsonValue("object", TRUE,
                JObject(JArray(<<PayloadIssue1, PayloadIssue2>>), JArray(<<PayloadSuggestion1>>),
                        JNumber(80), JString("two findings")))
         [] text[1] = ResourcedObject ->
              JsonValue("object", TRUE,
                JObject(JArray(<<PayloadIssue1Resourced, PayloadIssue2Resourced>>),
                        JArray(<<PayloadSuggestion1Resourced>>),
                        JNumber(80), JString("two findings")))
         [] text[1] = SparseObject ->
              JsonValue("object", TRUE, JObject(JArray(<<>>), JUndefined, JUndefined, JUndefined))
         [] text[1] = HighScoreObject ->
              JsonValue("object", TRUE, JObject(JArray(<<>>), JUndefined, JNumber(150), JUndefined))
         [] text[1] = LowScoreObject ->
              JsonValue("object", TRUE, JObject(JArray(<<>>), JUndefined, JNumber(-10), JUndefined))
         [] text[1] = LineZeroObject ->
              JsonValue("object", TRUE,
                JObject(JArray(<<PayloadIssue0>>), JUndefined, JNumber(95), JUndefined))
         [] OTHER -> JsonSyntaxError

IsFence(piece) == piece \in {FenceJsonPiece, FencePiece}
HasBraces(piece) == piece \in ObjectPieces \cup {BrokenPiece}
HasIssuesKey(piece) == piece \in ObjectPieces \cup {BrokenPiece}

NotFence(piece) == ~IsFence(piece)

\* response.replace(/<fence>json\n?/g, "").replace(/<fence>\n?/g, "").trim()
StripFences(response) == SelectSeq(response, NotFence)

BracePositions(text) == {i \in 1..Len(text) : HasBraces(text[i])}
FirstOf(S) == CHOOSE i \in S : \A j \in S : i <= j
LastOf(S) == CHOOSE i \in S : \A j \in S : j <= i

\* text.match(/\{[\s\S]*\}/): from the first "{" to the last "}"
BraceSpan(text) == SubSeq(text, FirstOf(BracePositions(text)), LastOf(BracePositions(text)))

\* response.match(/\{[\s\S]*"issues"[\s\S]*\}/) finds a span
HasIssuesSpan(text) ==
  /\ BracePositions(text) # {}
  /\ \E i \in FirstOf(BracePositions(text))..LastOf(BracePositions(text)) : HasIssuesKey(text[i])

\* How a call ends: with a value, or with an exception
Returned(v) == [threw |-> FALSE, value |-> v]
Threw == [threw |-> TRUE, value |-> NoResult]

\* The object the second fallback strategy makes up
MinimalResponse ==
  JsonValue("object", TRUE,
    JObject(JArray(<<>>), JArray(<<>>), JUndefined,
            JString("Failed to parse Claude response - using empty result")))

\* The try block of parseAnalysisResponse: clean, find the span, parse, fall
\* back, validate, build the result
TryParseAnalysisResponse(response, filePath) ==
  LET stripped == StripFences(response)
      cleanResponse == IF BracePositions(stripped) # {} THEN BraceSpan(stripped) ELSE stripped
      direct == JsonParse(cleanResponse)
      fallback == IF HasIssuesSpan(response) THEN JsonParse(BraceSpan(response))
                  ELSE JsonSyntaxError
      parsed == IF direct.ok THEN direct
                ELSE IF fallback.ok THEN fallback
                ELSE MinimalResponse
  IN  IF ~parsed.truthy \/ parsed.type # "object"
        THEN Threw
        ELSE Returned(ParseAnalysisResponse(parsed.obj, filePath))

\* The result the catch block of parseAnalysisResponse returns
ParseErrorResult(filePath) ==
  [file |-> filePath,
   issues |-> <<[type |-> "error", line |-> 1,
                 message |-> "Failed to parse Claude response: Parsed response is not an object",
                 source |-> "claude"]>>,
   suggestions |-> <<>>, score |-> 0,
   summary |-> <<"Analysis parsing failed - Claude returned invalid response format">>]

\* parseAnalysisResponse(response, filePath)
parseAnalysisResponse(response, filePath) ==
  LET attempt == TryParseAnalysisResponse(response, filePath)
  IN  IF attempt.threw THEN Returned(ParseErrorResult(filePath)) ELSE attempt

ResponseTexts == SeqsUpTo(Pieces, MaxPieces)

InitParse ==
  /\ anthropic = NoClient
  /\ resultCache = EmptyCache
  /\ heap = [c \in CallIds |-> NoResult]
  /\ calls = [c \in CallIds |-> IdleCall]
  /\ invoked = [k \in Keys |-> 0]
  /\ lastOp = "constructor"
  /\ cmbIn = <<>>
  /\ cmbOut = NoResult
  /\ fnIn \in [response : ResponseTexts, filePath : {"a.ts"}]
  /\ fnOut = <<>>
  /\ OrchIdle

CallParseAnalysisResponse ==
  /\ lastOp = "constructor"
  /\ fnOut' = parseAnalysisResponse(fnIn.response, fnIn.filePath)
  /\ lastOp' = "parseAnalysisResponse"
  /\ UNCHANGED <<anthropic, svcVars, cmbVars, fnIn, orchVars>>

NextParse == CallParseAnalysisResponse

SpecParse == InitParse /\ [][NextParse]_vars

Parsed == lastOp = "parseAnalysisResponse"

\* C11: the score of a result is within [0,10] (0..100 in tenths), whatever
\* the completion response was
C11_ScoreWithinRange == Parsed => (~fnOut.threw /\ fnOut.value.score \in 0..100)

\* C12: every issue of a result has a line number of at least 1, issues taken
\* from the completion response included
C12_LinesArePositive ==
  Parsed => \A i \in 1..Len(fnOut.value.issues) : fnOut.value.issues[i].line >= 1

\* The piece with the "source" values of its findings taken out of account
SourceBlind(piece) == IF piece = ResourcedObject THEN FullObject ELSE piece

DiffersOnlyInSource(r1, r2) ==
  /\ Len(r1) = Len(r2)
  /\ \A i \in 1..Len(r1) : SourceBlind(r1[i]) = SourceBlind(r2[i])

AllFromClaude(seq) == \A i \in 1..Len(seq) : seq[i].source = "claude"

\* C16: every issue and suggestion of a parsed response has source "claude",
\* and a response differing from the parsed one only in the "source" values
\* it carries parses to the same result
C16_TrustBoundary ==
  Parsed =>
    /\ AllFromClaude(fnOut.value.issues)
    /\ AllFromClaude(fnOut.value.suggestions)
    /\ \A other \in ResponseTexts :
         DiffersOnlyInSource(fnIn.response, other)
           => parseAnalysisResponse(other, fnIn.filePath) = fnOut

\* A fenced response whose findings name other sources was parsed into two
\* issues and one suggestion
C16_Witness ==
  /\ Parsed
  /\ fnIn.response = <<FenceJsonPiece, ResourcedObject>>
  /\ Len(fnOut.value.issues) = 2
  /\ Len(fnOut.value.suggestions) = 1

\* C17: parseAnalysisResponse returns a result for every response text, and
\* a response with no {...} span yields no issue, no suggestion and the
\* summary "parse failed"
C17_ParseFailureDegrades ==
  Parsed =>
    /\ ~fnOut.threw
    /\ BracePositions(fnIn.response) = {} =>
         /\ fnOut.value.issues = <<>>
         /\ fnOut.value.suggestions = <<>>
         /\ fnOut.value.summary = <<"parse failed">>

(***************************************************************************)
(* DiffAnalyzer.extractOldAndNewContent                                    *)
(***************************************************************************)
MaxDiffLines == 3

\* A text is the sequence of its characters.  The lines diffs are made of:
RemovedFoo == <<"-", "f", "o", "o">>
AddedBar == <<"+", "b", "a", "r">>
ContextLine == <<" ", "c", "o", "n", "t", "e", "x", "t">>
BlankLine == <<>>
RemovedDashes == <<"-", "-", "-", "x">>
AddedPluses == <<"+", "+", "+", "x">>
OldFileHeader == <<"-", "-", "-", " ", "a">>
NewFileHeader == <<"+", "+", "+", " ", "b">>
HunkHeader == <<"@", "@", " ", "-", "1">>
GitHeader == <<"d", "i", "f", "f", " ", "-", "-", "g", "i", "t", " ", "a", " ", "b">>
IndexHeader == <<"i", "n", "d", "e", "x", " ", "1", "f">>
OtherLine == <<"\\", " ", "N", "o", " ", "n", "e", "w", "l", "i", "n", "e">>

SampleLines ==
  {RemovedFoo, AddedBar, ContextLine, BlankLine, RemovedDashes, AddedPluses, OldFileHeader,
   NewFileHeader, HunkHeader, GitHeader, IndexHeader, OtherLine}

\* line.startsWith(prefix)
StartsWith(line, prefix) ==
  Len(line) >= Len(prefix) /\ SubSeq(line, 1, Len(prefix)) = prefix

\* line.substring(1)
Substring1(line) == SubSeq(line, 2, Len(line))

NewlinePositions(text) == {i \in 1..Len(text) : text[i] = "\n"}

\* text.split("\n")
RECURSIVE SplitLines(_)
SplitLines(text) ==
  IF NewlinePositions(text) = {} THEN <<text>>
  ELSE LET i == FirstOf(NewlinePositions(text))
       IN  <<SubSeq(text, 1, i - 1)>> \o SplitLines(SubSeq(text, i + 1, Len(text)))

\* lines.join("\n")
RECURSIVE JoinLines(_)
JoinLines(lines) ==
  IF lines = <<>> THEN <<>>
  ELSE IF Len(lines) = 1 THEN lines[1]
  ELSE lines[1] \o <<"\n">> \o JoinLines(Tail(lines))

IsDiffHeader(line) ==
  \/ StartsWith(line, <<"d", "i", "f", "f", " ", "-", "-", "g", "i", "t">>)
  \/ StartsWith(line, <<"i", "n", "d", "e", "x", " ">>)
  \/ StartsWith(line, <<"-", "-", "-", " ">>)
  \/ StartsWith(line, <<"+", "+", "+", " ">>)
  \/ StartsWith(line, <<"@", "@">>)

\* The classification of one line as the reconstruction rules word it: a
\* header to neither side, a "-" line to old, a "+" line to new, a line
\* starting with a space or an empty line to both, any other line to neither
ClassifyBySign(acc, line) ==
  IF IsDiffHeader(line) THEN acc
  ELSE IF StartsWith(line, <<"-">>)
    THEN [acc EXCEPT !.oldLines = Append(@, Substring1(line))]
  ELSE IF StartsWith(line, <<"+">>)
    THEN [acc EXCEPT !.newLines = Append(@, Substring1(line))]
  ELSE IF StartsWith(line, <<" ">>) \/ line = <<>>
    THEN LET content == IF StartsWith(line, <<" ">>) THEN Substring1(line) ELSE line
         IN  [oldLines |-> Append(acc.oldLines, content),
              newLines |-> Append(acc.newLines, content)]
  ELSE acc

\* The body of the for loop of extractOldAndNewContent, for one line
ClassifyLine(acc, line) ==
  IF IsDiffHeader(line) THEN acc
  ELSE IF StartsWith(line, <<"-">>) /\ ~StartsWith(line, <<"-", "-", "-">>)
    THEN [acc EXCEPT !.oldLines = Append(@, Substring1(line))]
  ELSE IF StartsWith(line, <<"+">>) /\ ~StartsWith(line, <<"+", "+", "+">>)
    THEN [acc EXCEPT !.newLines = Append(@, Substring1(line))]
  ELSE IF StartsWith(line, <<" ">>) \/ line = <<>>
    THEN LET content == IF StartsWith(line, <<" ">>) THEN Substring1(line) ELSE line
         IN  [oldLines |-> Append(acc.oldLines, content),
              newLines |-> Append(acc.newLines, content)]
  ELSE acc

RECURSIVE ClassifyAll(_, _)
ClassifyAll(acc, lines) ==
  IF lines = <<>> THEN acc ELSE ClassifyAll(ClassifyLine(acc, lines[1]), Tail(lines))

\* extractOldAndNewContent(diff)
extractOldAndNewContent(diff) ==
  LET done == ClassifyAll([oldLines |-> <<>>, newLines |-> <<>>], SplitLines(diff))
  IN  [oldContent |-> JoinLines(done.oldLines), newContent |-> JoinLines(done.newLines)]

\* Diff texts: up to MaxDiffLines lines, the last one ended by a newline or not
DiffTexts ==
  {JoinLines(ls) \o end : ls \in SeqsUpTo(SampleLines, MaxDiffLines), end \in {<<>>, <<"\n">>}}

InitDiff ==
  /\ anthropic = NoClient
  /\ resultCache = EmptyCache
  /\ heap = [c \in CallIds |-> NoResult]
  /\ calls = [c \in CallIds |-> IdleCall]
  /\ invoked = [k \in Keys |-> 0]
  /\ lastOp = "constructor"
  /\ cmbIn = <<>>
  /\ cmbOut = NoResult
  /\ fnIn \in DiffTexts
  /\ fnOut = <<>>
  /\ OrchIdle

CallExtractOldAndNewContent ==
  /\ lastOp = "constructor"
  /\ fnOut' = extractOldAndNewContent(fnIn)
  /\ lastOp' = "extractOldAndNewContent"
  /\ UNCHANGED <<anthropic, svcVars, cmbVars, fnIn, orchVars>>

NextDiff == CallExtractOldAndNewContent

SpecDiff == InitDiff /\ [][NextDiff]_vars

Extracted == lastOp = "extractOldAndNewContent"

\* C13: the diff "-foo\n+bar\n context\n" is reconstructed as old content
\* "foo\ncontext" and new content "bar\ncontext"
C13_ReconstructExample ==
  (Extracted /\ fnIn = JoinLines(<<RemovedFoo, AddedBar, ContextLine>>) \o <<"\n">>)
    => /\ fnOut.oldContent = JoinLines(<<Substring1(RemovedFoo), Substring1(ContextLine)>>)
       /\ fnOut.newContent = JoinLines(<<Substring1(AddedBar), Substring1(ContextLine)>>)

RECURSIVE ClassifyAllBySign(_, _)
ClassifyAllBySign(acc, lines) ==
  IF lines = <<>> THEN acc ELSE ClassifyAllBySign(ClassifyBySign(acc, lines[1]), Tail(lines))

MaxEntries == 2

\* Paths, as character sequences
AbsolutePathA == <<"/", "h", "o", "m", "e", "/", "u", "s", "e", "r", "/", "p", "r", "o", "j", "e", "c", "t", "/", "s", "r", "c", "/", "a", ".", "t", "s">>
RelativePathA == <<"s", "r", "c", "/", "a", ".", "t", "s">>
PathB == <<"b", ".", "t", "s">>
WindowsPathA == <<"S", "R", "C", "\\", "A", ".", "t", "s">>
BarePathA == <<"a", ".", "t", "s">>
FolderPath == <<"l", "i", "b", "/">>
PathAB == <<"/", "x", "/", "a", "b", ".", "t", "s">>

SamplePaths ==
  {AbsolutePathA, RelativePathA, PathB, WindowsPathA, BarePathA, FolderPath, PathAB}

SampleIssueLists == {<<AntIssue>>, <<LinterIssue, AntIssue>>}

UpperCaseLetters == <<"A", "B", "C", "D", "E", "F", "G", "H", "I", "J", "K", "L", "M", "N", "O", "P", "Q", "R", "S", "T", "U", "V", "W", "X", "Y", "Z">>
LowerCaseLetters == <<"a", "b", "c", "d", "e", "f", "g", "h", "i", "j", "k", "l", "m", "n", "o", "p", "q", "r", "s", "t", "u", "v", "w", "x", "y", "z">>

ToLowerCase(ch) ==
  IF \E i \in 1..Len(UpperCaseLetters) : UpperCaseLetters[i] = ch
    THEN LowerCaseLetters[CHOOSE i \in 1..Len(UpperCaseLetters) : UpperCaseLetters[i] = ch]
    ELSE ch

\* path.replace(/\\/g, "/").toLowerCase()
Normalize(path) ==
  [i \in 1..Len(path) |-> IF path[i] = "\\" THEN "/" ELSE ToLowerCase(path[i])]

\* text.endsWith(suffix)
EndsWith(text, suffix) ==
  Len(suffix) <= Len(text) /\ SubSeq(text, Len(text) - Len(suffix) + 1, Len(text)) = suffix

\* text.includes(part)
Includes(text, part) ==
  \E i \in 1..(Len(text) + 1) :
    i + Len(part) - 1 <= Len(text) /\ SubSeq(text, i, i + Len(part) - 1) = part

\* path.split("/").pop() || ""
RECURSIVE LastSegment(_)
LastSegment(path) ==
  IF \A i \in 1..Len(path) : path[i] # "/" THEN path
  ELSE LastSegment(SubSeq(path, FirstOf({i \in 1..Len(path) : path[i] = "/"}) + 1, Len(path)))

\* The condition of the flexible matching loop
FlexibleMatch(normalizedDocPath, normalizedPath) ==
  \/ EndsWith(normalizedDocPath, normalizedPath)
  \/ EndsWith(normalizedPath, normalizedDocPath)
  \/ Includes(normalizedDocPath, LastSegment(normalizedPath))
  \/ Includes(normalizedPath, LastSegment(normalizedDocPath))

\* A loop that goes on to the last matching entry
RECURSIVE FindLastFlexible(_, _)
FindLastFlexible(entries, normalizedDocPath) ==
  IF entries = <<>> THEN <<>>
  ELSE IF FlexibleMatch(normalizedDocPath, Normalize(entries[Len(entries)].path))
    THEN entries[Len(entries)].issues
  ELSE FindLastFlexible(SubSeq(entries, 1, Len(entries) - 1), normalizedDocPath)

\* for (const [storedPath, issues] of this.issuesMap.entries()) ... return []
RECURSIVE FindFlexible(_, _)
FindFlexible(entries, normalizedDocPath) ==
  IF entries = <<>> THEN <<>>
  ELSE IF FlexibleMatch(normalizedDocPath, Normalize(entries[1].path))
    THEN entries[1].issues
  ELSE FindFlexible(Tail(entries), normalizedDocPath)

\* getIssuesForFile(filePath)
getIssuesForFile(m, filePath) ==
  IF \E i \in 1..Len(m) : m[i].path = filePath
    THEN m[CHOOSE i \in 1..Len(m) : m[i].path = filePath].issues
    ELSE FindFlexible(m, Normalize(filePath))

InitLookup ==
  /\ anthropic = NoClient
  /\ resultCache = EmptyCache
  /\ heap = [c \in CallIds |-> NoResult]
  /\ calls = [c \in CallIds |-> IdleCall]
  /\ invoked = [k \in Keys |-> 0]
  /\ lastOp = "constructor"
  /\ cmbIn = <<>>
  /\ cmbOut = NoResult
  /\ FnIdle
  /\ OrchIdle

\* setIssues(filePath, issues) by a caller of the provider
CallSetIssues(filePath, issues) ==
  /\ (\E i \in 1..Len(issuesMap) : issuesMap[i].path = filePath) \/ Len(issuesMap) < MaxEntries
  /\ issuesMap' = setIssues(issuesMap, filePath, issues)
  /\ lastOp' = "setIssues"
  /\ UNCHANGED <<anthropic, svcVars, cmbVars, fnVars, reqs, log, loading>>

\* getIssuesForFile(filePath), as provideCodeLenses calls it
CallGetIssuesForFile(filePath) ==
  /\ fnIn' = filePath
  /\ fnOut' = getIssuesForFile(issuesMap, filePath)
  /\ lastOp' = "getIssuesForFile"
  /\ UNCHANGED <<anthropic, svcVars, cmbVars, orchVars>>

NextLookup ==
  \/ \E filePath \in SamplePaths, issues \in SampleIssueLists : CallSetIssues(filePath, issues)
  \/ \E filePath \in SamplePaths : CallGetIssuesForFile(filePath)

SpecLookup == InitLookup /\ [][NextLookup]_vars

Looked == lastOp = "getIssuesForFile"

IsSuffixOf(a, b) ==
  \E k \in 0..Len(b) : Len(a) = Len(b) - k /\ \A i \in 1..Len(a) : a[i] = b[k + i]

Occurs(part, text) ==
  \E k \in 0..Len(text) : k + Len(part) <= Len(text) /\ \A i \in 1..Len(part) : part[i] = text[k + i]

SlashPositions(path) == {i \in 1..Len(path) : path[i] = "/"}

FinalSegmentOf(path) ==
  IF SlashPositions(path) = {} THEN path
  ELSE [i \in 1..(Len(path) - LastOf(SlashPositions(path))) |-> path[LastOf(SlashPositions(path)) + i]]

\* The entries whose key is the query, and those that match it flexibly
ExactEntries == {i \in 1..Len(issuesMap) : issuesMap[i].path = fnIn}

MatchingEntries ==
  {i \in 1..Len(issuesMap) :
     LET query == Normalize(fnIn)
         stored == Normalize(issuesMap[i].path)
     IN  \/ IsSuffixOf(stored, query)
         \/ IsSuffixOf(query, stored)
         \/ Occurs(FinalSegmentOf(stored), query)
         \/ Occurs(FinalSegmentOf(query), stored)}

\* C15: a lookup returns the issues under the exact key if there is one,
\* otherwise those of the first entry in insertion order whose normalized
\* path is a suffix of the normalized query, or has it as a suffix, or shares
\* a final segment with it by containment, otherwise nothing; issues under
\* "/home/user/project/src/a.ts" alone are found for "src/a.ts", not for "b.ts"
C15_PathLookup ==
  Looked =>
    /\ ExactEntries # {} => \A i \in ExactEntries : fnOut = issuesMap[i].issues
    /\ (ExactEntries = {} /\ MatchingEntries # {})
         => fnOut = issuesMap[FirstOf(MatchingEntries)].issues
    /\ (ExactEntries = {} /\ MatchingEntries = {}) => fnOut = <<>>
    /\ (Len(issuesMap) = 1 /\ issuesMap[1].path = AbsolutePathA)
         => /\ fnIn = RelativePathA => fnOut = issuesMap[1].issues
            /\ fnIn = PathB => fnOut = <<>>

\* With two entries that both match "src/a.ts" flexibly, the lookup returned
\* the issues of the one set first
C15_Witness ==
  /\ Looked
  /\ fnIn = RelativePathA
  /\ Len(issuesMap) = 2
  /\ issuesMap[1].path = AbsolutePathA
  /\ issuesMap[2].path = BarePathA
  /\ issuesMap[1].issues # issuesMap[2].issues
  /\ fnOut = issuesMap[1].issues

(***************************************************************************)
(* Failures of analyzeFullFile (checked under SpecCache)                   *)
(***************************************************************************)
Settled(c) == calls[c].st \in {"returned", "thrown"}

\* C18: the completion boundary is invoked only by a call that starts on a
\* miss, once; the step in which its completion arrives invokes nothing, a
\* failed completion ends the call with an error, and an ended call stays so
C18_NoRetries ==
  [][ /\ \A c \in DOMAIN calls :
           /\ (Started(c) /\ calls'[c].st = "awaiting")
                => \A k \in Keys :
                     invoked'[k] = invoked[k] + (IF k = GetCacheKey(calls'[c].fc) THEN 1 ELSE 0)
           /\ (calls[c].st = "awaiting" /\ calls'[c].st # "awaiting")
                => Settled(c)' /\ invoked' = invoked
           /\ (calls[c].st = "awaiting" /\ lastOp' = "failure" /\ calls'[c] # calls[c])
                => calls'[c].st = "thrown"
           /\ Settled(c) => calls'[c].st = calls[c].st
      /\ invoked' # invoked
           => \E c \in DOMAIN calls : Started(c) /\ calls'[c].st = "awaiting" ]_vars

\* A call's only invocation failed and the call ended with the error
C18_Witness ==
  /\ lastOp = "failure"
  /\ \E c \in DOMAIN calls :
       /\ calls[c].st = "thrown"
       /\ invoked[KeyOf(c)] = 1
       /\ resultCache[KeyOf(c)] = NoEntry

(***************************************************************************)
(* ClaudeService.analyzeCode beside analyzeFullFile                        *)
(***************************************************************************)
\* The one analyzeCode call followed: where it is, how many times it went to
\* the completion boundary, and the text it returned
CodeCall(st, invocations, text) == [st |-> st, invocations |-> invocations, text |-> text]

NoCodeCall == CodeCall("idle", 0, "")

\* analyzeCode up to its first await: client check (throws), request sent
AnalyzeCodeStart(client, prompt) ==
  IF client = NoClient THEN CodeCall("thrown", 0, "") ELSE CodeCall("awaiting", 1, "")

\* analyzeCode after the await: the text of a text block is returned, any
\* other block or a rejection is rethrown
AnalyzeCodeResume(call, resp) ==
  IF resp.kind = "text" THEN [call EXCEPT !.st = "returned", !.text = resp.text]
  ELSE [call EXCEPT !.st = "thrown"]

Prompts == {"compare old and new"}

CodeResponses ==
  [kind : {"text"}, text : {"ISSUE: 3: m"}] \cup {[kind |-> "nontext"], [kind |-> "throws"]}

InitService ==
  /\ anthropic = NoClient
  /\ resultCache = EmptyCache
  /\ heap = [c \in CallIds |-> NoResult]
  /\ calls = [c \in CallIds |-> IdleCall]
  /\ invoked = [k \in Keys |-> 0]
  /\ lastOp = "constructor"
  /\ cmbIn = <<>>
  /\ cmbOut = NoResult
  /\ fnIn = ""
  /\ fnOut = NoCodeCall
  /\ OrchIdle

\* analyzeCode(prompt), one call at a time
CallAnalyzeCode(prompt) ==
  /\ fnOut.st # "awaiting"
  /\ fnIn' = prompt
  /\ fnOut' = AnalyzeCodeStart(anthropic, prompt)
  /\ lastOp' = "analyzeCode"
  /\ UNCHANGED <<anthropic, svcVars, cmbVars, orchVars>>

CodeBoundaryResponds(resp) ==
  /\ fnOut.st = "awaiting"
  /\ fnOut' = AnalyzeCodeResume(fnOut, resp)
  /\ lastOp' = IF resp.kind = "text" THEN "response" ELSE "failure"
  /\ UNCHANGED <<anthropic, svcVars, cmbVars, fnIn, orchVars>>

NextService ==
  \/ (\E k \in ApiKeys : Initialize(k)) /\ UNCHANGED <<cmbVars, fnVars, orchVars>>
  \/ (\E fc \in FileChanges : CallAnalyzeFullFile(fc)) /\ UNCHANGED <<cmbVars, fnVars, orchVars>>
  \/ (\E c \in CallIds, resp \in Responses : BoundaryResponds(c, resp))
       /\ UNCHANGED <<cmbVars, fnVars, orchVars>>
  \/ ClearCache /\ UNCHANGED <<cmbVars, fnVars, orchVars>>
  \/ \E prompt \in Prompts : CallAnalyzeCode(prompt)
  \/ \E resp \in CodeResponses : CodeBoundaryResponds(resp)

SpecService == InitService /\ [][NextService]_vars

\* C19: without a client, a call of analyzeFullFile or of analyzeCode ends
\* with an error at once, invokes the completion boundary for no key and
\* leaves the cache as it was
C19_NotInitializedSurfaced ==
  [][ anthropic = NoClient =>
        /\ \A c \in DOMAIN calls :
             Started(c) => /\ calls'[c].st = "thrown"
                           /\ invoked' = invoked
                           /\ resultCache' = resultCache
        /\ lastOp' = "analyzeCode" =>
             /\ fnOut'.st = "thrown"
             /\ fnOut'.invocations = 0
             /\ invoked' = invoked
             /\ resultCache' = resultCache ]_vars

\* Before any key was set, a call of each method has ended with the error
C19_Witness ==
  /\ anthropic = NoClient
  /\ fnOut.st = "thrown"
  /\ fnOut.invocations = 0
  /\ \E c \in DOMAIN calls : calls[c].st = "thrown"
  /\ \A k \in Keys : invoked[k] = 0 /\ resultCache[k] = NoEntry

(***************************************************************************)
(* LinterAnalyzer: import of the editor's diagnostics                      *)
(***************************************************************************)
MaxDiagnostics == 3

\* diagnostic.code: absent, a string, a number, or an object with a value
DiagnosticCode(t, s, n) == [t |-> t, s |-> s, n |-> n]
NoCode == DiagnosticCode("undefined", "", 0)

\* A vscode.Diagnostic: severity, range.start (0-based), message (its words),
\* code and source
Diagnostic(severity, line, character, message, code, source) ==
  [severity |-> severity, line |-> line, character |-> character, message |-> message,
   code |-> code, source |-> source]

SampleDiagnostics ==
  { Diagnostic("Error", 0, 0, <<"x", "is", "not", "defined">>,
               DiagnosticCode("string", "no-undef", 0), "eslint"),
    Diagnostic("Warning", 4, 7, <<"unused", "variable">>,
               DiagnosticCode("number", "", 2304), "ts"),
    Diagnostic("Information", 2, 0, <<"f", "is", "deprecated">>, NoCode, ""),
    Diagnostic("Hint", 9, 3, <<"prefer", "const">>,
               DiagnosticCode("object", "E1", 0), "eslint"),
    Diagnostic("Information", 0, 0, <<"check", "this">>,
               DiagnosticCode("number", "", 0), "") }

\* A mapping that takes a hint for a warning
MapSeverityHintAsWarning(severity) ==
  CASE severity = "Error" -> "error"
    [] severity = "Warning" -> "warning"
    [] severity = "Hint" -> "warning"
    [] OTHER -> "info"

\* LinterAnalyzer.mapSeverityToType
mapSeverityToType(severity) ==
  CASE severity = "Error" -> "error"
    [] severity = "Warning" -> "warning"
    [] OTHER -> "info"

DecimalDigits == <<"0", "1", "2", "3", "4", "5", "6", "7", "8", "9">>

\* n.toString() of a natural number
RECURSIVE NumberToString(_)
NumberToString(n) ==
  IF n < 10 THEN DecimalDigits[n + 1]
  ELSE NumberToString(n \div 10) \o DecimalDigits[(n % 10) + 1]

\* if (diagnostic.code) ...: an absent code, "" and 0 are falsy
CodeIsTruthy(code) ==
  CASE code.t = "undefined" -> FALSE
    [] code.t = "string" -> code.s # ""
    [] code.t = "number" -> code.n # 0
    [] OTHER -> TRUE

\* The rule of convertDiagnosticToIssue
RuleOf(diagnostic) ==
  LET code == diagnostic.code
      rule == IF ~CodeIsTruthy(code) THEN "unknown"
              ELSE CASE code.t = "string" -> code.s
                     [] code.t = "number" -> NumberToString(code.n)
                     [] OTHER -> code.s
  IN  IF diagnostic.source # "" THEN diagnostic.source \o ":" \o rule ELSE rule

\* LinterAnalyzer.convertDiagnosticToIssue
convertDiagnosticToIssue(diagnostic) ==
  [type |-> mapSeverityToType(diagnostic.severity),
   line |-> diagnostic.line + 1,
   column |-> diagnostic.character + 1,
   message |-> diagnostic.message,
   rule |-> RuleOf(diagnostic),
   source |-> "linter"]

HasWord(message, word) == \E i \in 1..Len(message) : message[i] = word

\* convertToSuggestionMessage(diagnosticMessage), on lower-case words
convertToSuggestionMessage(message) ==
  IF HasWord(message, "unused")
    THEN <<"Consider removing unused code to improve maintainability">>
  ELSE IF HasWord(message, "deprecated")
    THEN <<"Consider updating to the recommended alternative">>
  ELSE IF HasWord(message, "missing")
    THEN <<"Consider adding the missing element for better code quality">>
  ELSE IF HasWord(message, "prefer")
    THEN <<"Consider using the preferred approach for consistency">>
  ELSE <<"Consider addressing:">> \o message

\* createSuggestionFromDiagnostic(diagnostic): <<>> stands for null
createSuggestionFromDiagnostic(diagnostic) ==
  IF diagnostic.severity # "Information" THEN <<>>
  ELSE <<[line |-> diagnostic.line + 1,
          column |-> diagnostic.character + 1,
          message |-> convertToSuggestionMessage(diagnostic.message),
          source |-> "linter"]>>

\* The for loop of LinterAnalyzer.analyzeFile over the diagnostics
RECURSIVE ImportDiagnostics(_, _)
ImportDiagnostics(acc, diagnostics) ==
  IF diagnostics = <<>> THEN acc
  ELSE LET diagnostic == diagnostics[1]
           withIssue == Append(acc.issues, convertDiagnosticToIssue(diagnostic))
           withSuggestion ==
             IF diagnostic.severity = "Information"
               THEN acc.suggestions \o createSuggestionFromDiagnostic(diagnostic)
               ELSE acc.suggestions
       IN  ImportDiagnostics([issues |-> withIssue, suggestions |-> withSuggestion],
                             Tail(diagnostics))

InitLinter ==
  /\ anthropic = NoClient
  /\ resultCache = EmptyCache
  /\ heap = [c \in CallIds |-> NoResult]
  /\ calls = [c \in CallIds |-> IdleCall]
  /\ invoked = [k \in Keys |-> 0]
  /\ lastOp = "constructor"
  /\ cmbIn = <<>>
  /\ cmbOut = NoResult
  /\ fnIn \in SeqsUpTo(SampleDiagnostics, MaxDiagnostics)
  /\ fnOut = <<>>
  /\ OrchIdle

\* LinterAnalyzer.analyzeFile once getDiagnostics has returned fnIn
CallImportDiagnostics ==
  /\ lastOp = "constructor"
  /\ fnOut' = ImportDiagnostics([issues |-> <<>>, suggestions |-> <<>>], fnIn)
  /\ lastOp' = "importDiagnostics"
  /\ UNCHANGED <<anthropic, svcVars, cmbVars, fnIn, orchVars>>

NextLinter == CallImportDiagnostics

SpecLinter == InitLinter /\ [][NextLinter]_vars

Imported == lastOp = "importDiagnostics"

SeverityAsClaimed(severity) ==
  CASE severity = "Error" -> "error"
    [] severity = "Warning" -> "warning"
    [] severity \in {"Information", "Hint"} -> "info"

IsInformation(diagnostic) == diagnostic.severity = "Information"

\* C20: the import yields one issue per diagnostic, in input order, with the
\* severity mapped Error->error, Warning->warning, Information|Hint->info and
\* line and column one more than the 0-based input, and one suggestion for
\* each Information diagnostic, in order, and none for any other
C20_DiagnosticImport ==
  Imported =>
    /\ Len(fnOut.issues) = Len(fnIn)
    /\ \A i \in 1..Len(fnIn) :
         /\ fnOut.issues[i].type = SeverityAsClaimed(fnIn[i].severity)
         /\ fnOut.issues[i].line = fnIn[i].line + 1
         /\ fnOut.issues[i].column = fnIn[i].character + 1
         /\ fnOut.issues[i].message = fnIn[i].message
    /\ Len(fnOut.suggestions) = Len(SelectSeq(fnIn, IsInformation))
    /\ \A j \in 1..Len(fnOut.suggestions) :
         /\ fnOut.suggestions[j].line = SelectSeq(fnIn, IsInformation)[j].line + 1
         /\ fnOut.suggestions[j].column = SelectSeq(fnIn, IsInformation)[j].character + 1

\* An error, a hint and an information diagnostic were imported as three
\* issues and one suggestion
C20_Witness ==
  /\ Imported
  /\ Len(fnIn) = 3
  /\ fnIn[1].severity = "Error"
  /\ fnIn[2].severity = "Hint"
  /\ fnIn[3].severity = "Information"
  /\ fnOut.issues[2].type = "info"
  /\ fnOut.issues[2].line = fnIn[2].line + 1
  /\ Len(fnOut.suggestions) = 1

\* The string form of a rule identifier, as the normalization rule gives it
CodeAsString(code) ==
  IF code.t = "number" THEN NumberToString(code.n) ELSE code.s

HasIdentifier(diagnostic) == diagnostic.code.t \in {"string", "number", "object"}

\* C23: for every diagnostic whose code is a string, a number (0 included) or
\* a {value} record, the issue's rule is the string form of the code, prefixed
\* as source:rule when the diagnostic has a source
C23_RuleNormalization ==
  Imported =>
    \A i \in 1..Len(fnIn) :
      HasIdentifier(fnIn[i]) =>
        fnOut.issues[i].rule =
          (IF fnIn[i].source # "" THEN fnIn[i].source \o ":" ELSE "")
            \o CodeAsString(fnIn[i].code)

(***************************************************************************)
(* The heuristic scans: ANTAnalyzer (full file) and DiffAnalyzer.runLintChecks *)
(***************************************************************************)
MaxScanLines == 4

\* line.length > 120
LineLimit == 120
\* longLinesCount <= 3
MaxLongLines == 3

\* A line of the scanned text: its length and the tokens the rules look for
\* that it contains; the sample lines hold no other token of any rule
ScanLine(length, tokens) == [length |-> length, tokens |-> tokens]

SampleScanLines ==
  { ScanLine(130, {}), ScanLine(121, {}), ScanLine(120, {}), ScanLine(10, {}),
    ScanLine(130, {"debugger"}), ScanLine(20, {"TODO"}) }

Finding(type, line, message, source) ==
  [type |-> type, line |-> line, message |-> message, source |-> source]

Advice(line, message, source) == [line |-> line, message |-> message, source |-> source]

NoFindings == [issues |-> <<>>, suggestions |-> <<>>]

Push(acc, issue, suggestion) ==
  [issues |-> Append(acc.issues, issue), suggestions |-> Append(acc.suggestions, suggestion)]

TooLongMessage == "Line is too long (>120 characters)"
BreakLineMessage == "Break this line into multiple lines for better readability"

\* ANTAnalyzer.analyzeCodeQuality: the forEach over the lines (index is the
\* 1-based lineNum); no sample line has a brace, a branch or a function, so
\* maxDepth, cyclomaticComplexity and functionCount stay 0 and report nothing
RECURSIVE AnalyzeCodeQuality(_, _, _, _)
AnalyzeCodeQuality(lines, index, longLinesCount, acc) ==
  IF index > Len(lines) THEN acc
  ELSE IF lines[index].length > LineLimit
    THEN AnalyzeCodeQuality(lines, index + 1, longLinesCount + 1,
           IF longLinesCount + 1 <= MaxLongLines
             THEN Push(acc, Finding("warning", index, TooLongMessage, "ant"),
                            Advice(index, BreakLineMessage, "ant"))
             ELSE acc)
    ELSE AnalyzeCodeQuality(lines, index + 1, longLinesCount, acc)

\* ANTAnalyzer.analyzePerformanceIssues: the debugger rule
RECURSIVE AnalyzePerformanceIssues(_, _, _)
AnalyzePerformanceIssues(lines, index, acc) ==
  IF index > Len(lines) THEN acc
  ELSE AnalyzePerformanceIssues(lines, index + 1,
         IF "debugger" \in lines[index].tokens
           THEN Push(acc, Finding("warning", index, "Debugger statement found", "ant"),
                          Advice(index, "Remove debugger statement before production", "ant"))
           ELSE acc)

\* ANTAnalyzer.analyzeBestPractices: the TODO/FIXME rule
RECURSIVE AnalyzeBestPractices(_, _, _)
AnalyzeBestPractices(lines, index, acc) ==
  IF index > Len(lines) THEN acc
  ELSE AnalyzeBestPractices(lines, index + 1,
         IF "TODO" \in lines[index].tokens
           THEN Push(acc, Finding("warning", index, "TODO/FIXME comment found", "ant"),
                          Advice(index, "Address this TODO/FIXME before merging to production", "ant"))
           ELSE acc)

\* The scans of ANTAnalyzer.analyzeFile in their order (analyzeSecurityIssues
\* finds nothing in the sample lines)
AntScan(lines) ==
  AnalyzeBestPractices(lines, 1,
    AnalyzePerformanceIssues(lines, 1,
      AnalyzeCodeQuality(lines, 1, 0, NoFindings)))

\* The checks of runLintChecks on one line, in their order
LintLine(line, lineNum, acc) ==
  LET a1 == IF "debugger" \in line.tokens
              THEN Push(acc, Finding("error", lineNum, "Debugger statement found in new code", "diff"),
                             Advice(lineNum, "Remove debugger statement before committing", "diff"))
              ELSE acc
      a2 == IF "TODO" \in line.tokens
              THEN Push(a1, Finding("warning", lineNum, "TODO/FIXME comment found in new code", "diff"),
                            Advice(lineNum, "Address TODO/FIXME before committing", "diff"))
              ELSE a1
  IN  IF line.length > LineLimit
        THEN Push(a2, Finding("warning", lineNum, TooLongMessage, "diff"),
                      Advice(lineNum, BreakLineMessage, "diff"))
        ELSE a2

\* DiffAnalyzer.runLintChecks
RECURSIVE RunLintChecks(_, _, _)
RunLintChecks(lines, index, acc) ==
  IF index > Len(lines) THEN acc
  ELSE RunLintChecks(lines, index + 1, LintLine(lines[index], index, acc))

InitScan ==
  /\ anthropic = NoClient
  /\ resultCache = EmptyCache
  /\ heap = [c \in CallIds |-> NoResult]
  /\ calls = [c \in CallIds |-> IdleCall]
  /\ invoked = [k \in Keys |-> 0]
  /\ lastOp = "constructor"
  /\ cmbIn = <<>>
  /\ cmbOut = NoResult
  /\ fnIn \in SeqsUpTo(SampleScanLines, MaxScanLines) \ {<<>>}
  /\ fnOut = <<>>
  /\ OrchIdle

\* ANTAnalyzer.analyzeFile on a content whose lines are fnIn
CallAntScan ==
  /\ lastOp = "constructor"
  /\ fnOut' = AntScan(fnIn)
  /\ lastOp' = "analyzeFile"
  /\ UNCHANGED <<anthropic, svcVars, cmbVars, fnIn, orchVars>>

\* DiffAnalyzer.analyzeDiff's runLintChecks on a new content whose lines are fnIn
CallRunLintChecks ==
  /\ lastOp = "constructor"
  /\ fnOut' = RunLintChecks(fnIn, 1, NoFindings)
  /\ lastOp' = "runLintChecks"
  /\ UNCHANGED <<anthropic, svcVars, cmbVars, fnIn, orchVars>>

NextScan == CallAntScan \/ CallRunLintChecks

SpecScan == InitScan /\ [][NextScan]_vars

Scanned == lastOp \in {"analyzeFile", "runLintChecks"}

IsTooLong(issue) == issue.message = TooLongMessage
IsBreakLine(suggestion) == suggestion.message = BreakLineMessage

\* The positions of the lines longer than 120 characters, in order
RECURSIVE LongPositions(_, _)
LongPositions(lines, index) ==
  IF index > Len(lines) THEN <<>>
  ELSE (IF lines[index].length > 120 THEN <<index>> ELSE <<>>)
         \o LongPositions(lines, index + 1)

FirstThree(seq) == SubSeq(seq, 1, IF Len(seq) < 3 THEN Len(seq) ELSE 3)

\* C21: at both call sites the scan raises a "too long" warning with one
\* paired suggestion for the first 3 lines longer than 120 characters and for
\* no other line; a single 130-character line gives one warning and one
\* suggestion and nothing else
C21_LineLengthRule ==
  Scanned =>
    LET expected == FirstThree(LongPositions(fnIn, 1))
        warnings == SelectSeq(fnOut.issues, IsTooLong)
        advice == SelectSeq(fnOut.suggestions, IsBreakLine)
    IN  /\ Len(warnings) = Len(expected)
        /\ Len(advice) = Len(expected)
        /\ \A i \in 1..Len(expected) :
             /\ warnings[i].type = "warning"
             /\ warnings[i].line = expected[i]
             /\ advice[i].line = expected[i]
        /\ fnIn = <<ScanLine(130, {})>> =>
             Len(fnOut.issues) = 1 /\ Len(fnOut.suggestions) = 1

(***************************************************************************)
(* Promise.all over the three analyzers of one file, then combineResults   *)
(***************************************************************************)
\* The positions of the analyzers in the array given to Promise.all
Analyzers == <<"claude", "ant", "linter">>

AnalyzerResult(issues, score) ==
  [file |-> "a.ts", issues |-> issues, suggestions |-> <<>>, score |-> score,
   summary |-> <<>>]

Rejected == [AnalyzerResult(<<>>, 0) EXCEPT !.file = "rejected"]

ClaudeIssue(line) == [type |-> "error", line |-> line, message |-> "bug", source |-> "claude"]

\* What each analyzer ends with: only the semantic analysis can reject, the
\* other two turn their failures into results
AnalyzerOutcomes ==
  [claude : {AnalyzerResult(<<>>, 100), AnalyzerResult(<<ClaudeIssue(3), ClaudeIssue(1)>>, 60),
             Rejected},
   ant : {AnalyzerResult(<<>>, 100), AnalyzerResult(<<AntIssue>>, 90)},
   linter : {AnalyzerResult(<<>>, 100), AnalyzerResult(<<LinterIssue>>, 80),
             AnalyzerResult(<<LinterIssue, LinterIssue>>, 60)}]

PendingAll == [slots |-> <<<< >>, << >>, << >>>>, order |-> <<>>, state |-> "pending"]

\* The array in order of completion
ValuesInFinishOrder(p) == [i \in 1..3 |-> p.slots[p.order[i]][1]]

\* The array Promise.all fulfils with: the values in the order of the promises
ValuesOf(p) == [i \in 1..3 |-> p.slots[i][1]]

\* One promise settles: a rejection rejects the pending Promise.all at once,
\* the last fulfilment fulfils it
Settle(p, i, outcome) ==
  LET slots == [p.slots EXCEPT ![i] = <<outcome>>]
      order == Append(p.order, i)
  IN  [slots |-> slots,
       order |-> order,
       state |-> IF p.state # "pending" THEN p.state
                 ELSE IF outcome = Rejected THEN "rejected"
                 ELSE IF Len(order) = 3 THEN "fulfilled"
                 ELSE "pending"]

InitJoin ==
  /\ anthropic = NoClient
  /\ resultCache = EmptyCache
  /\ heap = [c \in CallIds |-> NoResult]
  /\ calls = [c \in CallIds |-> IdleCall]
  /\ invoked = [k \in Keys |-> 0]
  /\ lastOp = "constructor"
  /\ cmbIn = <<>>
  /\ cmbOut = NoResult
  /\ fnIn \in AnalyzerOutcomes
  /\ fnOut = <<>>
  /\ OrchIdle

\* Promise.all([...]) is called: the three analyses are started
CallPromiseAll ==
  /\ lastOp = "constructor"
  /\ fnOut' = PendingAll
  /\ lastOp' = "Promise.all"
  /\ UNCHANGED <<anthropic, svcVars, cmbVars, fnIn, orchVars>>

\* The analysis at position i of the array completes
AnalyzerSettles(i) ==
  /\ lastOp \in {"Promise.all", "settled"}
  /\ fnOut.slots[i] = << >>
  /\ fnOut' = Settle(fnOut, i, fnIn[Analyzers[i]])
  /\ lastOp' = "settled"
  /\ UNCHANGED <<anthropic, svcVars, cmbVars, fnIn, orchVars>>

\* The await returns and combineResults([claudeResult, antResult, linterResult]) runs
CombineJoined ==
  /\ lastOp = "settled"
  /\ fnOut.state = "fulfilled"
  /\ cmbIn' = ValuesOf(fnOut)
  /\ cmbOut' = combineResults(ValuesOf(fnOut))
  /\ lastOp' = "combineResults"
  /\ UNCHANGED <<anthropic, svcVars, fnVars, orchVars>>

NextJoin ==
  \/ CallPromiseAll
  \/ \E i \in 1..3 : AnalyzerSettles(i)
  \/ CombineJoined

SpecJoin == InitJoin /\ [][NextJoin]_vars

\* C22: combineResults runs only after all three analyzers have completed,
\* and its issues are the semantic issues, then the heuristic issues, then
\* the diagnostic issues, whatever the order of completion
C22_JoinBeforeAggregation ==
  lastOp = "combineResults" =>
    /\ \A i \in 1..3 : fnOut.slots[i] # << >>
    /\ Len(fnOut.order) = 3
    /\ cmbOut.issues = fnIn.claude.issues \o fnIn.ant.issues \o fnIn.linter.issues

\* The diagnostic analyzer finished first and the semantic one last, each
\* with issues, and the results were combined
C22_Witness ==
  /\ lastOp = "combineResults"
  /\ fnOut.order = <<3, 2, 1>>
  /\ fnIn.claude.issues # <<>>
  /\ fnIn.ant.issues # <<>>
  /\ fnIn.linter.issues # <<>>
  /\ cmbOut.issues[1].source = "claude"

(***************************************************************************)
(* Failed completions and the cache (checked under SpecCache)              *)
(***************************************************************************)
\* C24: when the completion of an analyzeFullFile call throws or is not a
\* text block, the call fails and the cache is exactly as it was; a call
\* that starts with a client on a key without an entry invokes the boundary,
\* so the next call for the failed key does
C24_FailuresNotCached ==
  [][ /\ lastOp' = "failure"
           => /\ resultCache' = resultCache
              /\ CachedValues' = CachedValues
              /\ \A c \in DOMAIN calls :
                   calls'[c] # calls[c] => calls[c].st = "awaiting" /\ calls'[c].st = "thrown"
      /\ \A c \in DOMAIN calls :
           (Started(c) /\ anthropic # NoClient /\ resultCache[GetCacheKey(calls'[c].fc)] = NoEntry)
             => /\ calls'[c].st = "awaiting"
                /\ invoked'[GetCacheKey(calls'[c].fc)] = invoked[GetCacheKey(calls'[c].fc)] + 1 ]_vars

\* The first call for a key failed and the second call for the same key has
\* just invoked the boundary again
C24_Witness ==
  /\ lastOp = "analyzeFullFile"
  /\ calls[1].st = "thrown"
  /\ calls[2].st = "awaiting"
  /\ calls[1].fc = calls[2].fc
  /\ invoked[GetCacheKey(calls[2].fc)] = 2
  /\ resultCache = EmptyCache

(***************************************************************************)
(* clearCache() and the analyses in flight                                 *)
(***************************************************************************)
\* For each call, whether clearCache() ran while it awaited its completion
NoneCrossed == [c \in CallIds |-> FALSE]

InitClear ==
  /\ anthropic = NoClient
  /\ resultCache = EmptyCache
  /\ heap = [c \in CallIds |-> NoResult]
  /\ calls = [c \in CallIds |-> IdleCall]
  /\ invoked = [k \in Keys |-> 0]
  /\ lastOp = "constructor"
  /\ cmbIn = <<>>
  /\ cmbOut = NoResult
  /\ fnIn = <<>>
  /\ fnOut = NoneCrossed
  /\ OrchIdle

\* clearCache() is called while the calls awaiting in `calls` are in flight
ClearCacheInFlight ==
  /\ ClearCache
  /\ fnOut' = [c \in CallIds |-> fnOut[c] \/ calls[c].st = "awaiting"]
  /\ UNCHANGED <<cmbVars, fnIn, orchVars>>

NextClear ==
  \/ (\E k \in ApiKeys : Initialize(k)) /\ UNCHANGED <<cmbVars, fnVars, orchVars>>
  \/ (\E fc \in FileChanges : CallAnalyzeFullFile(fc)) /\ UNCHANGED <<cmbVars, fnVars, orchVars>>
  \/ (\E c \in CallIds, resp \in Responses : BoundaryResponds(c, resp)) /\ UNCHANGED <<cmbVars, fnVars, orchVars>>
  \/ ClearCacheInFlight

SpecClear == InitClear /\ [][NextClear]_vars

\* C25: clearCache() empties the cache and leaves the calls in flight as they
\* are, and a call that was in flight when it ran still stores its result
\* under its key when its completion returns a text block
C25_ClearKeepsInFlight ==
  [][ /\ lastOp' = "clearCache" => resultCache' = EmptyCache /\ calls' = calls
      /\ \A c \in CallIds :
           (fnOut[c] /\ calls[c].st = "awaiting" /\ calls'[c] # calls[c] /\ lastOp' = "response")
             => /\ calls'[c].st = "returned"
                /\ resultCache'[KeyOf(c)] = c
                /\ CachedValues'[KeyOf(c)] = heap'[c] ]_vars

\* The only call ever made was in flight when clearCache() ran, and the cache
\* now holds its result
C25_Witness ==
  /\ lastOp = "response"
  /\ fnOut[1]
  /\ calls[1].st = "returned"
  /\ \A c \in CallIds \ {1} : calls[c].st = "idle"
  /\ resultCache[KeyOf(1)] = 1

(***************************************************************************)
(* ClaudeService: the load of the saved configuration and initialize       *)
(***************************************************************************)
MaxInitializeCalls == 2

\* The value under "claude-config" in the secret storage: none, or a config
\* with an apiKey ("" when absent) and a model (NoField when absent)
NoConfig == [apiKey |-> "", model |-> NoField, stored |-> FALSE]

Config(apiKey, model) == [apiKey |-> apiKey, model |-> model, stored |-> TRUE]

\* CLAUDE_MODELS.SONNET_4, the initial currentModel
DefaultModel == "claude-sonnet-4-20250514"

SavedModels == {NoField, DefaultModel, "claude-3-5-haiku-20241022"}

\* The keys a config saved earlier can hold: one given since, an older one, none
SavedKeys == ApiKeys \cup {"k0", ""}

SavedConfigs == {NoConfig} \cup {Config(k, m) : k \in SavedKeys, m \in SavedModels}

\* What secrets.store can do
StoreOutcomes == {"stored", "rejects"}

\* The service's initialization state: the constructor-started load (its
\* getConfig pending, read, or finished, with the config it read), the
\* initialize activation (idle, awaiting saveConfig, returned or failed) with
\* the key and config it was called with, and the number of initialize calls
InitState(load, config, currentModel, isInitializing, init, apiKey, saving, n) ==
  [load |-> load, config |-> config, currentModel |-> currentModel,
   isInitializing |-> isInitializing, init |-> init, apiKey |-> apiKey,
   saving |-> saving, n |-> n]

\* The constructor has run: initializeFromSavedConfig is at its await
InitInitialization ==
  /\ anthropic = NoClient
  /\ resultCache = EmptyCache
  /\ heap = [c \in CallIds |-> NoResult]
  /\ calls = [c \in CallIds |-> IdleCall]
  /\ invoked = [k \in Keys |-> 0]
  /\ lastOp = "constructor"
  /\ cmbIn = <<>>
  /\ cmbOut = NoResult
  /\ fnIn \in SavedConfigs
  /\ fnOut = InitState("reading", NoConfig, DefaultModel, TRUE, "idle", NoClient, NoConfig, 0)
  /\ OrchIdle

\* The secret storage serves the pending secrets.get; a failing get or parse
\* makes getConfig return null
SecretsGet(ok) ==
  /\ fnOut.load = "reading"
  /\ fnOut' = [fnOut EXCEPT !.load = "read", !.config = IF ok THEN fnIn ELSE NoConfig]
  /\ lastOp' = "secrets.get"
  /\ UNCHANGED <<anthropic, svcVars, cmbVars, fnIn, orchVars>>

\* A load that leaves a client that is already there alone
LoadedClientUnlessSet(config) ==
  IF config.apiKey # "" /\ anthropic = NoClient THEN config.apiKey ELSE anthropic

\* if (config && config.apiKey) this.anthropic = new Anthropic({apiKey: config.apiKey})
LoadedClient(config) == IF config.apiKey # "" THEN config.apiKey ELSE anthropic

\* if (config.model) this.currentModel = config.model, under the same test
LoadedModel(config, currentModel) ==
  IF config.apiKey # "" /\ config.model # NoField THEN config.model ELSE currentModel

\* initializeFromSavedConfig resumes after its await and runs to its end
LoadCompletes ==
  /\ fnOut.load = "read"
  /\ anthropic' = LoadedClient(fnOut.config)
  /\ fnOut' = [fnOut EXCEPT !.load = "done",
                            !.currentModel = LoadedModel(fnOut.config, @),
                            !.isInitializing = FALSE]
  /\ lastOp' = "initializeFromSavedConfig"
  /\ UNCHANGED <<svcVars, cmbVars, fnIn, orchVars>>

\* initialize(apiKey) up to its await of saveConfig
CallInitialize(apiKey) ==
  /\ fnOut.init # "saving"
  /\ fnOut.n < MaxInitializeCalls
  /\ anthropic' = apiKey
  /\ fnOut' = [fnOut EXCEPT !.init = "saving", !.apiKey = apiKey,
                            !.saving = Config(apiKey, fnOut.currentModel),
                            !.n = @ + 1]
  /\ lastOp' = "initialize"
  /\ UNCHANGED <<svcVars, cmbVars, fnIn, orchVars>>

\* secrets.store settles: initialize returns, or throws when it rejects
SecretsStore(outcome) ==
  /\ fnOut.init = "saving"
  /\ fnIn' = IF outcome = "stored" THEN fnOut.saving ELSE fnIn
  /\ fnOut' = [fnOut EXCEPT !.init = IF outcome = "stored" THEN "returned" ELSE "failed"]
  /\ lastOp' = "secrets.store"
  /\ UNCHANGED <<anthropic, svcVars, cmbVars, orchVars>>

NextInitialization ==
  \/ \E ok \in BOOLEAN : SecretsGet(ok)
  \/ LoadCompletes
  \/ \E k \in ApiKeys : CallInitialize(k)
  \/ \E outcome \in StoreOutcomes : SecretsStore(outcome)

SpecInitialization == InitInitialization /\ [][NextInitialization]_vars

\* C26: the completion of the constructor-started load assigns the client
\* from the config it read whenever that config has a key, and the model when
\* it has one, whatever initialize did in between; and initialize assigns the
\* client from its argument
C26_LoadOverwritesClient ==
  [][ /\ (fnOut.load = "read" /\ fnOut'.load = "done")
           => /\ fnOut.config.apiKey # "" => anthropic' = fnOut.config.apiKey
              /\ (fnOut.config.apiKey # "" /\ fnOut.config.model # NoField)
                   => fnOut'.currentModel = fnOut.config.model
              /\ fnOut.config.apiKey = "" => anthropic' = anthropic
      /\ lastOp' = "initialize" => anthropic' = fnOut'.apiKey ]_vars

\* initialize(apiKey) has returned, once, and the client is the one the load
\* built from the key saved before, with the saved model
C26_Witness ==
  /\ fnOut.init = "returned"
  /\ fnOut.n = 1
  /\ fnOut.load = "done"
  /\ anthropic # NoClient
  /\ anthropic # fnOut.apiKey
  /\ anthropic = fnOut.config.apiKey
  /\ fnOut.currentModel # DefaultModel

(***************************************************************************)
(* The request protocol (checked under SpecLive)                           *)
(***************************************************************************)
\* Every git call and every Promise.all of a handler settles
EveryCallTerminates ==
  \A r \in RequestIds :
    /\ WF_vars(\E fresh \in GitOutcomes : FreshChangesForFiles(r, fresh))
    /\ WF_vars(\E fresh \in GitOutcomes : FreshChangesForFullFile(r, fresh))
    /\ WF_vars(\E content \in Contents \cup {"throws"} : FileAsChangeReturns(r, content))
    /\ WF_vars(\E resp \in OrchResponses, lint \in LinterOutcomes : FileAnalysisSettles(r, resp, lint))

SpecLive == Spec /\ EveryCallTerminates

IsTerminal(m) == m.command \in {"analysisCompleted", "analysisError"}

HasStarted(r) ==
  /\ reqs[r].kind = "analyzeFiles"
  /\ \E i \in 1..Len(log[r]) : CommandAt(r, i) = "analysisStarted"

HasEnded(r) == Len(SelectSeq(log[r], IsTerminal)) = 1

\* C27: an analyzeFiles request that has sent analysisStarted eventually has
\* sent exactly one of analysisCompleted and analysisError; it never sends
\* two of them, and no fileAnalyzed follows the one it sent
C27_RequestProtocol ==
  /\ [](\A r \in RequestIds :
          reqs[r].kind = "analyzeFiles" =>
            /\ Len(SelectSeq(log[r], IsTerminal)) <= 1
            /\ \A i, j \in 1..Len(log[r]) :
                 (IsTerminal(log[r][i]) /\ CommandAt(r, j) = "fileAnalyzed") => j < i)
  /\ \A r \in RequestIds : HasStarted(r) ~> HasEnded(r)

\* A request over two files published the first and ended with analysisError
C27_Witness ==
  \E r \in RequestIds :
    /\ HasStarted(r)
    /\ Len(reqs[r].files) = 2
    /\ Len(log[r]) = 3
    /\ CommandAt(r, 2) = "fileAnalyzed"
    /\ CommandAt(r, 3) = "analysisError"
    /\ reqs[r].pc = "done"

(***************************************************************************)
(* Publication when a batch fails (checked under Spec)                     *)
(***************************************************************************)
HasKey(m, key) == \E j \in 1..Len(m) : m[j].path = key

\* The spelling of a path under the root of the opened workspace
UnderRoot(path) == "/ws/" \o path

\* The analysis of file reqs[r].idx of an analyzeFiles request threw
FailedMidBatch(r) ==
  /\ BatchOver(r)
  /\ log[r][Len(log[r])].command = "analysisError"

Received(r) == reqs[r].pc = "idle" /\ reqs'[r].pc # "idle"

\* C29: an analyzeFiles or analyzeFullFile request received while the
\* service has no client returns at once: no notification is sent, no
\* analyzer is invoked, and the result cache and the issue index are unchanged
C29_NotInitializedGuard ==
  [][ \A r \in RequestIds :
        (Received(r) /\ anthropic = NoClient)
          => /\ reqs'[r].pc = "done"
             /\ log' = log
             /\ log[r] = <<>>
             /\ invoked' = invoked
             /\ calls' = calls
             /\ resultCache' = resultCache
             /\ heap' = heap
             /\ issuesMap' = issuesMap ]_vars

\* Without a client an analyzeFiles and an analyzeFullFile request have
\* returned, and nothing was sent or published
C29_Witness ==
  /\ anthropic = NoClient
  /\ \E r, q \in RequestIds :
       /\ reqs[r].kind = "analyzeFiles" /\ reqs[r].pc = "done"
       /\ reqs[q].kind = "analyzeFullFile" /\ reqs[q].pc = "done"
  /\ \A r \in RequestIds : log[r] = <<>>
  /\ issuesMap = <<>>
  /\ resultCache = EmptyCache

(***************************************************************************)
(* clearIssues and the lookup that follows it                              *)
(***************************************************************************)
\* The issue lists the orchestrator registers: a clean file has none
IndexedIssueLists == {<<>>, <<LinterIssue, AntIssue>>}

RECURSIVE Without(_, _)
Without(m, filePath) ==
  IF m = <<>> THEN <<>>
  ELSE (IF m[1].path = filePath THEN <<>> ELSE <<m[1]>>) \o Without(Tail(m), filePath)

\* A clear that removes every spelling of the path
RECURSIVE ClearIssuesFlexibly(_, _)
ClearIssuesFlexibly(m, filePath) ==
  IF m = <<>> THEN <<>>
  ELSE (IF m[1].path = filePath \/ FlexibleMatch(Normalize(filePath), Normalize(m[1].path))
          THEN <<>> ELSE <<m[1]>>)
         \o ClearIssuesFlexibly(Tail(m), filePath)

\* clearIssues(filePath): this.issuesMap.delete(filePath)
clearIssues(m, filePath) == Without(m, filePath)

InitIndex ==
  /\ anthropic = NoClient
  /\ resultCache = EmptyCache
  /\ heap = [c \in CallIds |-> NoResult]
  /\ calls = [c \in CallIds |-> IdleCall]
  /\ invoked = [k \in Keys |-> 0]
  /\ lastOp = "constructor"
  /\ cmbIn = <<>>
  /\ cmbOut = NoResult
  /\ FnIdle
  /\ OrchIdle

\* clearIssues(filePath) by a caller of the provider; the index as it was
\* before the call is kept with the argument
CallClearIssues(filePath) ==
  /\ issuesMap' = clearIssues(issuesMap, filePath)
  /\ fnIn' = [filePath |-> filePath, before |-> issuesMap]
  /\ fnOut' = <<>>
  /\ lastOp' = "clearIssues"
  /\ UNCHANGED <<anthropic, svcVars, cmbVars, reqs, log, loading>>

\* getIssuesForFile for the path that was just cleared
CallGetIssuesAfterClear ==
  /\ lastOp = "clearIssues"
  /\ fnOut' = getIssuesForFile(issuesMap, fnIn.filePath)
  /\ lastOp' = "getIssuesForFile after clearIssues"
  /\ UNCHANGED <<anthropic, svcVars, cmbVars, fnIn, orchVars>>

NextIndex ==
  \/ \E filePath \in SamplePaths, issues \in IndexedIssueLists : CallSetIssues(filePath, issues)
  \/ \E filePath \in SamplePaths : CallClearIssues(filePath)
  \/ CallGetIssuesAfterClear

SpecIndex == InitIndex /\ [][NextIndex]_vars

Cleared == lastOp \in {"clearIssues", "getIssuesForFile after clearIssues"}

LookedAfterClear == lastOp = "getIssuesForFile after clearIssues"

\* The index is the one before the call without the entry of the cleared
\* path, the others as they were and in their order
OthersKept ==
  LET before == fnIn.before
      keep == {i \in 1..Len(before) : before[i].path # fnIn.filePath}
  IN  /\ Len(issuesMap) = Cardinality(keep)
      /\ \A i \in keep : issuesMap[Cardinality({j \in keep : j <= i})] = before[i]

\* The remaining entries that match the cleared path flexibly
RemainingMatches ==
  {i \in 1..Len(issuesMap) :
     LET query == Normalize(fnIn.filePath)
         stored == Normalize(issuesMap[i].path)
     IN  \/ IsSuffixOf(stored, query)
         \/ IsSuffixOf(query, stored)
         \/ Occurs(FinalSegmentOf(stored), query)
         \/ Occurs(FinalSegmentOf(query), stored)}

\* C30 as stated: clearIssues(p) removes only the key p and leaves the other
\* entries unchanged, and the lookup of p that follows returns an empty
\* sequence only when no remaining key matches p flexibly
C30_ClearIssuesEmptyOnlyWithoutMatch ==
  Cleared =>
    /\ OthersKept
    /\ (LookedAfterClear /\ fnOut = <<>>) => RemainingMatches = {}

\* C30, amended: clearIssues(p) removes only the key p and leaves the other
\* entries unchanged, and the lookup of p that follows returns the issues of
\* the first remaining key that matches p flexibly, which can be none, and
\* an empty sequence when no remaining key matches
C30_ClearIssues ==
  Cleared =>
    /\ OthersKept
    /\ LookedAfterClear
         => /\ RemainingMatches # {} => fnOut = issuesMap[FirstOf(RemainingMatches)].issues
            /\ RemainingMatches = {} => fnOut = <<>>

\* After clearIssues("src/a.ts") the lookup of "src/a.ts" returned the issues
\* registered under the full path of the same file
C30_Witness ==
  /\ LookedAfterClear
  /\ fnIn.filePath = RelativePathA
  /\ Len(fnIn.before) = 2
  /\ Len(issuesMap) = 1
  /\ issuesMap[1].path = AbsolutePathA
  /\ fnOut = issuesMap[1].issues
  /\ fnOut # <<>>

====
